---- MODULE Spec2Model ----
(***************************************************************************)
(* A model of the concurrency primitives of the theoryshop package:        *)
(*                                                                         *)
(*   EvictingQueue (src/theoryshop/queues.py): a deque guarded by one      *)
(*   condition variable, with evicting non-blocking puts, blocking/timed   *)
(*   gets and a stop flag.                                                 *)
(*                                                                         *)
(*   Store / Writer (src/theoryshop/store.py): a keyed callback registry   *)
(*   guarded by one lock, per-key cached writers, and writes that fan a    *)
(*   value out to the registered callbacks through an executor.            *)
(*                                                                         *)
(*   StoppableThread (src/theoryshop/threads.py): a thread with a stop     *)
(*   event that its run loop waits on and that others set.                 *)
(*                                                                         *)
(* Every method is cut into steps at the points where another thread can   *)
(* interleave: acquiring a lock, the statements run while holding it, and  *)
(* the wait inside Condition.wait_for, during which the lock is released.  *)
(***************************************************************************)
EXTENDS Integers, Sequences, FiniteSets, TLC

(***************************************************************************)
(* Bounds of the model.                                                    *)
(***************************************************************************)
\* Largest bounded capacity of the queue that is explored.
MaxSize == 2
\* Total number of put calls explored.
MaxPuts == 3
\* Total number of add_callback calls explored.
MaxIds == 2
\* Total number of Writer.write calls explored.
MaxWrites == 2
\* Number of worker threads of the executor handed to the Store.
Workers == 2

\* The threads that call into the queue.
QThreads == {"t1", "t2", "t3"}
\* The threads that call the methods of a StoppableThread or set its event.
TThreads == {"w1", "w2", "c1", "x1"}
\* The threads that call into the store, its keys, and the callbacks that are
\* registered: one that records the value, one that raises.
SThreads == {"s1", "s2"}
Keys == {"k1", "k2"}
Fns == {"append", "raises"}

\* size=None of EvictingQueue.__init__: an unbounded deque.
NoneSize == -1
\* No thread holds the lock.
Free == "free"

VARIABLES
    \* ---- EvictingQueue ----
    maxlen,        \* self._q.maxlen
    q,             \* self._q, head first
    stop_event,    \* self._stop_event
    cv_owner,      \* the thread holding self._cv's lock, or Free
    cv_waiters,    \* threads registered in self._cv and not yet notified
    qpc,           \* each thread's position in put / get / stop
    qtimeout,      \* the timeout argument of the thread's get
    qarg,          \* the value argument of the thread's put
    qres,          \* outcome of the thread's last call
    got,           \* history: the values each thread's gets returned, in order
    putHist,       \* history: the values put, in the order they were appended
    itr,           \* each thread's flush / iter_timeout / __iter__ in progress
    qobs,          \* each thread's last peek / peekleft / len / empty result
    \* ---- Store ----
    callbacks,     \* self.callbacks: key -> sequence of entries [id, f]
    callback_keys, \* self._callback_keys: id -> key
    writers,       \* self.writers: key -> Writer object
    wobjs,         \* the Writer objects constructed so far: object -> its key
    callback_lock, \* the thread holding self._callback_lock, or Free
    tasks,         \* the executor's work items, in submission order
    spc,           \* each thread's position in a Store / Writer method
    sloc,          \* each thread's local variables
    nextId,        \* number of callback ids generated so far
    nWrites,       \* number of write calls started so far
    seen,          \* per callback id: the values its invocations received
    rmCount,       \* history: per id, the remove_callback calls that succeeded
    handed,        \* history: per key, the Writer objects store.writer returned
    \* ---- StoppableThread ----
    thread_stop_event, \* self.stop_event: the flag of the threading.Event
    ev_owner,      \* the thread holding the event's internal lock, or Free
    ev_waiters,    \* threads blocked in Event.wait, neither notified nor timed out
    tpc,           \* each thread's position in wait / stop
    tloc           \* each thread's current or last call and what it returned

qvars == <<maxlen, q, stop_event, cv_owner, cv_waiters, qpc, qtimeout, qarg,
           qres, got, putHist, itr, qobs>>
svars == <<callbacks, callback_keys, writers, wobjs, callback_lock, tasks,
           spc, sloc, nextId, nWrites, seen, rmCount, handed>>
tvars == <<thread_stop_event, ev_owner, ev_waiters, tpc, tloc>>
vars == <<qvars, svars, tvars>>

(***************************************************************************)
(* Sequence helpers.                                                       *)
(***************************************************************************)
Last(s) == s[Len(s)]

\* The last n elements of s (all of s when it is shorter).
LastN(s, n) == IF Len(s) <= n THEN s ELSE SubSeq(s, Len(s) - n + 1, Len(s))

Range(s) == {s[i] : i \in 1..Len(s)}

RECURSIVE IsSubseq(_, _)
\* a is a (not necessarily contiguous) subsequence of b.
IsSubseq(a, b) ==
    IF a = <<>> THEN TRUE
    ELSE IF b = <<>> THEN FALSE
    ELSE IF Head(a) = Head(b) THEN IsSubseq(Tail(a), Tail(b))
    ELSE IsSubseq(a, Tail(b))

(***************************************************************************)
(* EvictingQueue                                                           *)
(***************************************************************************)
Sizes == (0..MaxSize) \cup {NoneSize}
Timeouts == {"none", "zero", "pos"}

\* A deque that refuses the new value when it is full.
DequeAppendDropNew(d, v, m) ==
    IF m = NoneSize THEN Append(d, v)
    ELSE IF Len(d) >= m THEN d
    ELSE Append(d, v)

\* A deque that ignores its maxlen.
DequeAppendNoEvict(d, v, m) == Append(d, v)

\* collections.deque.append on a deque with the given maxlen.
DequeAppend(d, v, m) ==
    IF m = NoneSize THEN Append(d, v)
    ELSE IF m = 0 THEN d
    ELSE IF Len(d) >= m THEN Append(Tail(d), v)
    ELSE Append(d, v)

\* __len__, empty, stopped, _unblocked
qlen == Len(q)
empty == qlen = 0
stopped == stop_event
unblocked == stopped \/ ~empty

\* A thread that is in no flush or iteration, and one that has looked at
\* nothing yet.
NoIter == [mode |-> "none", tmo |-> "none", pc |-> "none", out |-> <<>>,
           q0 |-> <<>>, s0 |-> FALSE, p0 |-> 0, g0 |-> 0]
NoObs == [op |-> "none", res |-> 0, flag |-> FALSE, exc |-> "none",
          p |-> 0, g |-> 0, s |-> FALSE]

\* EvictingQueue.__init__
QInit ==
    /\ maxlen \in Sizes
    /\ q = <<>>
    /\ stop_event = FALSE
    /\ cv_owner = Free
    /\ cv_waiters = {}
    /\ qpc = [t \in QThreads |-> "idle"]
    /\ qtimeout = [t \in QThreads |-> "none"]
    /\ qarg = [t \in QThreads |-> 0]
    /\ qres = [t \in QThreads |-> "None"]
    /\ got = [t \in QThreads |-> <<>>]
    /\ putHist = <<>>
    /\ itr = [t \in QThreads |-> NoIter]
    /\ qobs = [t \in QThreads |-> NoObs]

\* The queue never inspects the values it holds, so the n-th put call puts the
\* value n: every element of the buffer can be told from every other.
Values == 1..MaxPuts
NextValue == Len(putHist) + 1

\* put: `with self._cv:` entered.
put_acquire(t, v) ==
    /\ qpc[t] = "idle"
    /\ cv_owner = Free
    /\ v = NextValue
    /\ cv_owner' = t
    /\ qpc' = [qpc EXCEPT ![t] = "put"]
    /\ qarg' = [qarg EXCEPT ![t] = v]
    /\ qres' = [qres EXCEPT ![t] = "running"]
    /\ UNCHANGED <<maxlen, q, stop_event, cv_waiters, qtimeout, got, putHist>>
    /\ UNCHANGED <<itr, qobs, svars, tvars>>

\* A put that appends without notifying the waiters.
put_body_no_notify(t) ==
    /\ qpc[t] = "put"
    /\ cv_owner = t
    /\ q' = DequeAppend(q, qarg[t], maxlen)
    /\ putHist' = Append(putHist, qarg[t])
    /\ cv_owner' = Free
    /\ qpc' = [qpc EXCEPT ![t] = "idle"]
    /\ qres' = [qres EXCEPT ![t] = "None"]
    /\ qarg' = [qarg EXCEPT ![t] = 0]
    /\ UNCHANGED <<maxlen, stop_event, cv_waiters, qtimeout, got>>
    /\ UNCHANGED <<itr, qobs, svars, tvars>>

\* A put that refuses a stopped queue: it raises QueueStopped and appends
\* nothing.
put_body_refuses_stopped(t) ==
    /\ qpc[t] = "put"
    /\ cv_owner = t
    /\ IF stopped
       THEN /\ qres' = [qres EXCEPT ![t] = "QueueStopped"]
            /\ UNCHANGED <<q, putHist, cv_waiters>>
       ELSE /\ q' = DequeAppend(q, qarg[t], maxlen)
            /\ putHist' = Append(putHist, qarg[t])
            /\ cv_waiters' = {}
            /\ qres' = [qres EXCEPT ![t] = "None"]
    /\ cv_owner' = Free
    /\ qpc' = [qpc EXCEPT ![t] = "idle"]
    /\ qarg' = [qarg EXCEPT ![t] = 0]
    /\ UNCHANGED <<maxlen, stop_event, qtimeout, got>>
    /\ UNCHANGED <<itr, qobs, svars, tvars>>

\* put: self._q.append(value); self._cv.notify_all(); lock released.
put_body(t) ==
    /\ qpc[t] = "put"
    /\ cv_owner = t
    /\ q' = DequeAppend(q, qarg[t], maxlen)
    /\ putHist' = Append(putHist, qarg[t])
    /\ cv_waiters' = {}
    /\ cv_owner' = Free
    /\ qpc' = [qpc EXCEPT ![t] = "idle"]
    /\ qres' = [qres EXCEPT ![t] = "None"]
    /\ qarg' = [qarg EXCEPT ![t] = 0]
    /\ UNCHANGED <<maxlen, stop_event, qtimeout, got>>
    /\ UNCHANGED <<itr, qobs, svars, tvars>>

\* stop: `with self._cv:` entered.
stop_acquire(t) ==
    /\ qpc[t] = "idle"
    /\ cv_owner = Free
    /\ cv_owner' = t
    /\ qpc' = [qpc EXCEPT ![t] = "stop"]
    /\ qres' = [qres EXCEPT ![t] = "running"]
    /\ UNCHANGED <<maxlen, q, stop_event, cv_waiters, qtimeout, qarg, got, putHist>>
    /\ UNCHANGED <<itr, qobs, svars, tvars>>

\* A stop that wakes a single waiter (notify instead of notify_all).
stop_body_notify_one(t) ==
    /\ qpc[t] = "stop"
    /\ cv_owner = t
    /\ stop_event' = TRUE
    /\ \/ cv_waiters = {} /\ cv_waiters' = {}
       \/ \E w \in cv_waiters : cv_waiters' = cv_waiters \ {w}
    /\ cv_owner' = Free
    /\ qpc' = [qpc EXCEPT ![t] = "idle"]
    /\ qres' = [qres EXCEPT ![t] = "None"]
    /\ UNCHANGED <<maxlen, q, qtimeout, qarg, got, putHist>>
    /\ UNCHANGED <<itr, qobs, svars, tvars>>

\* A stop that flips the flag instead of setting it.
stop_body_toggles(t) ==
    /\ qpc[t] = "stop"
    /\ cv_owner = t
    /\ stop_event' = ~stop_event
    /\ cv_waiters' = {}
    /\ cv_owner' = Free
    /\ qpc' = [qpc EXCEPT ![t] = "idle"]
    /\ qres' = [qres EXCEPT ![t] = "None"]
    /\ UNCHANGED <<maxlen, q, qtimeout, qarg, got, putHist>>
    /\ UNCHANGED <<itr, qobs, svars, tvars>>

\* stop: self._stop_event.set(); self._cv.notify_all(); lock released.
stop_body(t) ==
    /\ qpc[t] = "stop"
    /\ cv_owner = t
    /\ stop_event' = TRUE
    /\ cv_waiters' = {}
    /\ cv_owner' = Free
    /\ qpc' = [qpc EXCEPT ![t] = "idle"]
    /\ qres' = [qres EXCEPT ![t] = "None"]
    /\ UNCHANGED <<maxlen, q, qtimeout, qarg, got, putHist>>
    /\ UNCHANGED <<itr, qobs, svars, tvars>>

\* get: `with self._cv:` entered; wait_for is about to evaluate the predicate
\* for the first time.
get_acquire(t, tmo) ==
    /\ qpc[t] = "idle"
    /\ cv_owner = Free
    /\ cv_owner' = t
    /\ qpc' = [qpc EXCEPT ![t] = "get"]
    /\ qtimeout' = [qtimeout EXCEPT ![t] = tmo]
    /\ qres' = [qres EXCEPT ![t] = "running"]
    /\ UNCHANGED <<maxlen, q, stop_event, cv_waiters, qarg, got, putHist>>
    /\ UNCHANGED <<itr, qobs, svars, tvars>>

\* The thread holds the lock inside get: at the first evaluation of the
\* predicate ("get"), after a notified wake-up ("get_re"), or after a wait that
\* timed out ("get_to").
InGetLocked(t) == qpc[t] \in {"get", "get_re", "get_to"} /\ cv_owner = t

\* A get that hands out what is buffered before it honours the stop flag.
get_raise_stopped_drains(t) ==
    /\ InGetLocked(t)
    /\ unblocked
    /\ stopped
    /\ IF empty
       THEN /\ qres' = [qres EXCEPT ![t] = "QueueStopped"]
            /\ UNCHANGED <<q, got>>
       ELSE /\ qres' = [qres EXCEPT ![t] = "value"]
            /\ q' = Tail(q)
            /\ got' = [got EXCEPT ![t] = Append(@, Head(q))]
    /\ cv_owner' = Free
    /\ qpc' = [qpc EXCEPT ![t] = "idle"]
    /\ qtimeout' = [qtimeout EXCEPT ![t] = "none"]
    /\ UNCHANGED <<maxlen, stop_event, cv_waiters, qarg, putHist>>
    /\ UNCHANGED <<itr, qobs, svars, tvars>>

\* get: the predicate holds and the queue is stopped: raise QueueStopped.
get_raise_stopped(t) ==
    /\ InGetLocked(t)
    /\ unblocked
    /\ stopped
    /\ cv_owner' = Free
    /\ qpc' = [qpc EXCEPT ![t] = "idle"]
    /\ qres' = [qres EXCEPT ![t] = "QueueStopped"]
    /\ qtimeout' = [qtimeout EXCEPT ![t] = "none"]
    /\ UNCHANGED <<maxlen, q, stop_event, cv_waiters, qarg, got, putHist>>
    /\ UNCHANGED <<itr, qobs, svars, tvars>>

\* A get that returns the oldest element and leaves it in the buffer.
get_return_no_pop(t) ==
    /\ InGetLocked(t)
    /\ unblocked
    /\ ~stopped
    /\ got' = [got EXCEPT ![t] = Append(@, Head(q))]
    /\ cv_owner' = Free
    /\ qpc' = [qpc EXCEPT ![t] = "idle"]
    /\ qres' = [qres EXCEPT ![t] = "value"]
    /\ qtimeout' = [qtimeout EXCEPT ![t] = "none"]
    /\ UNCHANGED <<maxlen, q, stop_event, cv_waiters, qarg, putHist>>
    /\ UNCHANGED <<itr, qobs, svars, tvars>>

\* A get that pops the newest element (pop instead of popleft).
get_return_newest(t) ==
    /\ InGetLocked(t)
    /\ unblocked
    /\ ~stopped
    /\ q' = SubSeq(q, 1, Len(q) - 1)
    /\ got' = [got EXCEPT ![t] = Append(@, Last(q))]
    /\ cv_owner' = Free
    /\ qpc' = [qpc EXCEPT ![t] = "idle"]
    /\ qres' = [qres EXCEPT ![t] = "value"]
    /\ qtimeout' = [qtimeout EXCEPT ![t] = "none"]
    /\ UNCHANGED <<maxlen, stop_event, cv_waiters, qarg, putHist>>
    /\ UNCHANGED <<itr, qobs, svars, tvars>>

\* A get that pops whenever the buffer is non-empty, stopped or not.
get_return_ignores_stop(t) ==
    /\ InGetLocked(t)
    /\ unblocked
    /\ ~empty
    /\ q' = Tail(q)
    /\ got' = [got EXCEPT ![t] = Append(@, Head(q))]
    /\ cv_owner' = Free
    /\ qpc' = [qpc EXCEPT ![t] = "idle"]
    /\ qres' = [qres EXCEPT ![t] = "value"]
    /\ qtimeout' = [qtimeout EXCEPT ![t] = "none"]
    /\ UNCHANGED <<maxlen, stop_event, cv_waiters, qarg, putHist>>
    /\ UNCHANGED <<itr, qobs, svars, tvars>>

\* get: the predicate holds and the queue is not stopped: return
\* self._q.popleft().
get_return(t) ==
    /\ InGetLocked(t)
    /\ unblocked
    /\ ~stopped
    /\ q' = Tail(q)
    /\ got' = [got EXCEPT ![t] = Append(@, Head(q))]
    /\ cv_owner' = Free
    /\ qpc' = [qpc EXCEPT ![t] = "idle"]
    /\ qres' = [qres EXCEPT ![t] = "value"]
    /\ qtimeout' = [qtimeout EXCEPT ![t] = "none"]
    /\ UNCHANGED <<maxlen, stop_event, cv_waiters, qarg, putHist>>
    /\ UNCHANGED <<itr, qobs, svars, tvars>>

\* A get that waits for a notification without testing the predicate first
\* (wait for wait_for).
get_wait_without_test(t) ==
    /\ InGetLocked(t)
    /\ \/ qpc[t] = "get"
       \/ qpc[t] = "get_re" /\ qtimeout[t] \in {"none", "pos"}
    /\ cv_waiters' = cv_waiters \cup {t}
    /\ cv_owner' = Free
    /\ qpc' = [qpc EXCEPT ![t] = "get_wait"]
    /\ UNCHANGED <<maxlen, q, stop_event, qtimeout, qarg, qres, got, putHist>>
    /\ UNCHANGED <<itr, qobs, svars, tvars>>

\* A wait that registers the waiter and keeps the lock.
get_wait_keeps_lock(t) ==
    /\ InGetLocked(t)
    /\ ~unblocked
    /\ \/ qpc[t] = "get"
       \/ qpc[t] = "get_re" /\ qtimeout[t] \in {"none", "pos"}
    /\ cv_waiters' = cv_waiters \cup {t}
    /\ qpc' = [qpc EXCEPT ![t] = "get_wait"]
    /\ UNCHANGED <<maxlen, q, stop_event, cv_owner, qtimeout, qarg, qres, got, putHist>>
    /\ UNCHANGED <<itr, qobs, svars, tvars>>

\* wait_for: the predicate is false and the deadline, if any, has not been
\* found passed: self.wait(waittime) registers a waiter and releases the lock.
\* The first evaluation always waits (endtime is None); after a notified
\* wake-up an untimed get waits again, and a get with a positive timeout waits
\* again if its deadline has not passed yet.
get_wait(t) ==
    /\ InGetLocked(t)
    /\ ~unblocked
    /\ \/ qpc[t] = "get"
       \/ qpc[t] = "get_re" /\ qtimeout[t] \in {"none", "pos"}
    /\ cv_waiters' = cv_waiters \cup {t}
    /\ cv_owner' = Free
    /\ qpc' = [qpc EXCEPT ![t] = "get_wait"]
    /\ UNCHANGED <<maxlen, q, stop_event, qtimeout, qarg, qres, got, putHist>>
    /\ UNCHANGED <<itr, qobs, svars, tvars>>

\* A timed get that gives up once its wait is over, without looking at the
\* predicate again.
get_raise_timeout_no_recheck(t) ==
    /\ InGetLocked(t)
    /\ \/ qpc[t] = "get_to"
       \/ qpc[t] = "get_re" /\ qtimeout[t] \in {"zero", "pos"}
    /\ cv_owner' = Free
    /\ qpc' = [qpc EXCEPT ![t] = "idle"]
    /\ qres' = [qres EXCEPT ![t] = "QueueTimeout"]
    /\ qtimeout' = [qtimeout EXCEPT ![t] = "none"]
    /\ UNCHANGED <<maxlen, q, stop_event, cv_waiters, qarg, got, putHist>>
    /\ UNCHANGED <<itr, qobs, svars, tvars>>

\* wait_for: the predicate is false and the deadline has passed (waittime <=
\* 0): wait_for returns False and get raises QueueTimeout.
get_raise_timeout(t) ==
    /\ InGetLocked(t)
    /\ ~unblocked
    /\ \/ qpc[t] = "get_to"
       \/ qpc[t] = "get_re" /\ qtimeout[t] \in {"zero", "pos"}
    /\ cv_owner' = Free
    /\ qpc' = [qpc EXCEPT ![t] = "idle"]
    /\ qres' = [qres EXCEPT ![t] = "QueueTimeout"]
    /\ qtimeout' = [qtimeout EXCEPT ![t] = "none"]
    /\ UNCHANGED <<maxlen, q, stop_event, cv_waiters, qarg, got, putHist>>
    /\ UNCHANGED <<itr, qobs, svars, tvars>>

\* A woken waiter that goes on to the predicate without getting the lock back.
get_wake_no_reacquire(t) ==
    /\ qpc[t] = "get_wait"
    /\ t \notin cv_waiters
    /\ qpc' = [qpc EXCEPT ![t] = "get_re"]
    /\ cv_owner' = t
    /\ UNCHANGED <<maxlen, q, stop_event, cv_waiters, qtimeout, qarg, qres, got, putHist>>
    /\ UNCHANGED <<itr, qobs, svars, tvars>>

\* Condition.wait returns after notify_all released the waiter: the lock is
\* re-acquired and the predicate is evaluated again.
get_wake(t) ==
    /\ qpc[t] = "get_wait"
    /\ t \notin cv_waiters
    /\ cv_owner = Free
    /\ cv_owner' = t
    /\ qpc' = [qpc EXCEPT ![t] = "get_re"]
    /\ UNCHANGED <<maxlen, q, stop_event, cv_waiters, qtimeout, qarg, qres, got, putHist>>
    /\ UNCHANGED <<itr, qobs, svars, tvars>>

\* Condition.wait(waittime) times out without a notification: the lock is
\* re-acquired and the waiter removes itself.
get_wake_timeout(t) ==
    /\ qpc[t] = "get_wait"
    /\ t \in cv_waiters
    /\ qtimeout[t] \in {"zero", "pos"}
    /\ cv_owner = Free
    /\ cv_owner' = t
    /\ cv_waiters' = cv_waiters \ {t}
    /\ qpc' = [qpc EXCEPT ![t] = "get_to"]
    /\ UNCHANGED <<maxlen, q, stop_event, qtimeout, qarg, qres, got, putHist>>
    /\ UNCHANGED <<itr, qobs, svars, tvars>>

\* The number of values get has returned to the threads of S.
RECURSIVE GotCount(_)
GotCount(S) ==
    IF S = {} THEN 0
    ELSE LET u == CHOOSE x \in S : TRUE
         IN  Len(got[u]) + GotCount(S \ {u})

\* The frame of an iteration that is about to make its first get; q0, s0, p0
\* and g0 remember the buffer, the stop flag, the number of puts and the
\* number of values other threads have got at that moment.
StartIter(t, mode, tmo) ==
    [mode |-> mode, tmo |-> tmo, pc |-> "call", out |-> <<>>,
     q0 |-> q, s0 |-> stopped, p0 |-> Len(putHist),
     g0 |-> GotCount(QThreads \ {t})]

\* flush: list(self.iter_timeout(0)) starts. A thread is followed through one
\* flush or iteration.
flush_call(t) ==
    /\ qpc[t] = "idle"
    /\ itr[t].pc = "none"
    /\ itr' = [itr EXCEPT ![t] = StartIter(t, "flush", "zero")]
    /\ UNCHANGED <<maxlen, q, stop_event, cv_owner, cv_waiters, qpc, qtimeout,
                   qarg, qres, got, putHist>>
    /\ UNCHANGED <<qobs, svars, tvars>>

\* iter_timeout(timeout): a new generator.
iter_timeout_call(t, tmo) ==
    /\ qpc[t] = "idle"
    /\ itr[t].pc = "none"
    /\ itr' = [itr EXCEPT ![t] = StartIter(t, "iter_timeout", tmo)]
    /\ UNCHANGED <<maxlen, q, stop_event, cv_owner, cv_waiters, qpc, qtimeout,
                   qarg, qres, got, putHist>>
    /\ UNCHANGED <<qobs, svars, tvars>>

\* __iter__: a new generator.
iter_call(t) ==
    /\ qpc[t] = "idle"
    /\ itr[t].pc = "none"
    /\ itr' = [itr EXCEPT ![t] = StartIter(t, "iter", "none")]
    /\ UNCHANGED <<maxlen, q, stop_event, cv_owner, cv_waiters, qpc, qtimeout,
                   qarg, qres, got, putHist>>
    /\ UNCHANGED <<qobs, svars, tvars>>

\* A loop body that calls self.get() and forgets the timeout.
itr_next_untimed(t) ==
    /\ itr[t].pc = "call"
    /\ qpc[t] = "idle"
    /\ cv_owner = Free
    /\ cv_owner' = t
    /\ qpc' = [qpc EXCEPT ![t] = "get"]
    /\ qtimeout' = [qtimeout EXCEPT ![t] = "none"]
    /\ qres' = [qres EXCEPT ![t] = "running"]
    /\ itr' = [itr EXCEPT ![t].pc = "wait"]
    /\ UNCHANGED <<maxlen, q, stop_event, cv_waiters, qarg, got, putHist>>
    /\ UNCHANGED <<qobs, svars, tvars>>

\* The loop body of iter_timeout / __iter__ calls self.get(timeout=timeout):
\* `with self._cv:` is entered.
itr_next(t) ==
    /\ itr[t].pc = "call"
    /\ qpc[t] = "idle"
    /\ cv_owner = Free
    /\ cv_owner' = t
    /\ qpc' = [qpc EXCEPT ![t] = "get"]
    /\ qtimeout' = [qtimeout EXCEPT ![t] = itr[t].tmo]
    /\ qres' = [qres EXCEPT ![t] = "running"]
    /\ itr' = [itr EXCEPT ![t].pc = "wait"]
    /\ UNCHANGED <<maxlen, q, stop_event, cv_waiters, qarg, got, putHist>>
    /\ UNCHANGED <<qobs, svars, tvars>>

\* A generator that swallows the value get returned.
itr_yield_drops(t) ==
    /\ itr[t].pc = "wait"
    /\ qpc[t] = "idle"
    /\ qres[t] = "value"
    /\ itr' = [itr EXCEPT ![t].pc = "call"]
    /\ UNCHANGED <<maxlen, q, stop_event, cv_owner, cv_waiters, qpc, qtimeout,
                   qarg, qres, got, putHist>>
    /\ UNCHANGED <<qobs, svars, tvars>>

\* get returned a value: the generator yields it (flush's list collects it).
itr_yield(t) ==
    /\ itr[t].pc = "wait"
    /\ qpc[t] = "idle"
    /\ qres[t] = "value"
    /\ itr' = [itr EXCEPT ![t].out = Append(@, Last(got[t])), ![t].pc = "call"]
    /\ UNCHANGED <<maxlen, q, stop_event, cv_owner, cv_waiters, qpc, qtimeout,
                   qarg, qres, got, putHist>>
    /\ UNCHANGED <<qobs, svars, tvars>>

\* A loop that goes on to the next get when get raised (continue for break).
itr_break_continues(t) ==
    /\ itr[t].pc = "wait"
    /\ qpc[t] = "idle"
    /\ \/ qres[t] = "QueueStopped"
       \/ qres[t] = "QueueTimeout" /\ itr[t].mode \in {"flush", "iter_timeout"}
    /\ itr' = [itr EXCEPT ![t].pc = "call"]
    /\ UNCHANGED <<maxlen, q, stop_event, cv_owner, cv_waiters, qpc, qtimeout,
                   qarg, qres, got, putHist>>
    /\ UNCHANGED <<qobs, svars, tvars>>

\* get raised: `except (QueueStopped, QueueTimeout): break` in iter_timeout,
\* `except QueueStopped: break` in __iter__; the generator is exhausted.
itr_break(t) ==
    /\ itr[t].pc = "wait"
    /\ qpc[t] = "idle"
    /\ \/ qres[t] = "QueueStopped"
       \/ qres[t] = "QueueTimeout" /\ itr[t].mode \in {"flush", "iter_timeout"}
    /\ itr' = [itr EXCEPT ![t].pc = "done"]
    /\ UNCHANGED <<maxlen, q, stop_event, cv_owner, cv_waiters, qpc, qtimeout,
                   qarg, qres, got, putHist>>
    /\ UNCHANGED <<qobs, svars, tvars>>

\* What a thread keeps of a call that only looks at the queue: the call, what
\* it returned (a value or length in res, a truth value in flag) or raised,
\* and, to tell whether anything happened since, the number of puts landed
\* and of values got at that moment and whether the queue was stopped.
Obs(op, res, flag, exc) ==
    [op |-> op, res |-> res, flag |-> flag, exc |-> exc,
     p |-> Len(putHist), g |-> GotCount(QThreads), s |-> stopped]

\* Everything of the queue but the observers' own records.
QueueState == <<maxlen, q, stop_event, cv_owner, cv_waiters, qpc, qtimeout,
                qarg, qres, got, putHist, itr>>

\* A peek that returns the oldest element.
peek_call_oldest(t) ==
    /\ qpc[t] = "idle"
    /\ qobs' = [qobs EXCEPT ![t] =
                    IF q = <<>> THEN Obs("peek", 0, FALSE, "IndexError")
                    ELSE Obs("peek", Head(q), FALSE, "none")]
    /\ UNCHANGED QueueState
    /\ UNCHANGED <<svars, tvars>>

\* peek: return self._q[-1], which raises IndexError on an empty deque. No
\* lock is taken.
peek_call(t) ==
    /\ qpc[t] = "idle"
    /\ qobs' = [qobs EXCEPT ![t] =
                    IF q = <<>> THEN Obs("peek", 0, FALSE, "IndexError")
                    ELSE Obs("peek", Last(q), FALSE, "none")]
    /\ UNCHANGED QueueState
    /\ UNCHANGED <<svars, tvars>>

\* A peekleft that takes the element out (popleft for [0]).
peekleft_call_pops(t) ==
    /\ qpc[t] = "idle"
    /\ qobs' = [qobs EXCEPT ![t] =
                    IF q = <<>> THEN Obs("peekleft", 0, FALSE, "IndexError")
                    ELSE Obs("peekleft", Head(q), FALSE, "none")]
    /\ q' = IF q = <<>> THEN q ELSE Tail(q)
    /\ UNCHANGED <<maxlen, stop_event, cv_owner, cv_waiters, qpc, qtimeout,
                   qarg, qres, got, putHist, itr>>
    /\ UNCHANGED <<svars, tvars>>

\* peekleft: return self._q[0], which raises IndexError on an empty deque. No
\* lock is taken.
peekleft_call(t) ==
    /\ qpc[t] = "idle"
    /\ qobs' = [qobs EXCEPT ![t] =
                    IF q = <<>> THEN Obs("peekleft", 0, FALSE, "IndexError")
                    ELSE Obs("peekleft", Head(q), FALSE, "none")]
    /\ UNCHANGED QueueState
    /\ UNCHANGED <<svars, tvars>>

\* len(queue): return len(self._q)
len_call(t) ==
    /\ qpc[t] = "idle"
    /\ qobs' = [qobs EXCEPT ![t] = Obs("len", qlen, FALSE, "none")]
    /\ UNCHANGED QueueState
    /\ UNCHANGED <<svars, tvars>>

\* empty: return len(self) == 0
empty_call(t) ==
    /\ qpc[t] = "idle"
    /\ qobs' = [qobs EXCEPT ![t] = Obs("empty", 0, empty, "none")]
    /\ UNCHANGED QueueState
    /\ UNCHANGED <<svars, tvars>>
(***************************************************************************)
(* Store and Writer                                                        *)
(***************************************************************************)
Ids == 1..MaxIds

\* The store passes the written value through without inspecting it, so the
\* n-th write call writes the value n: every write can be told from every
\* other.
WVals == 1..MaxWrites
NextWrite == nWrites + 1

\* The id is not in self._callback_keys / the key is not in self.writers.
NoKey == "-"
NoWriter == 0

\* A thread's locals outside any call.
NoLocals == [key |-> NoKey, id |-> 0, f |-> "-", val |-> 0,
             snap |-> <<>>, fut |-> 0, fs |-> <<>>, rm0 |-> {},
             iss0 |-> {}]

\* The ids add_callback has returned.
issued ==
    {i \in 1..nextId :
        \A t \in SThreads : ~(spc[t] \in {"add_lock", "add_2"} /\ sloc[t].id = i)}

\* The ids whose remove_callback has returned.
removed == {i \in Ids : rmCount[i] > 0}

\* The ids of a dict's entries, in insertion order.
IdsOf(entries) == [n \in 1..Len(entries) |-> entries[n].id]

\* dict deletion: the entries without the one of the given id.
RECURSIVE DictDel(_, _)
DictDel(entries, id) ==
    IF entries = <<>> THEN <<>>
    ELSE IF Head(entries).id = id THEN Tail(entries)
    ELSE <<Head(entries)>> \o DictDel(Tail(entries), id)

\* Store.__init__
SInit ==
    /\ callbacks = [k \in Keys |-> <<>>]
    /\ callback_keys = [i \in Ids |-> NoKey]
    /\ writers = [k \in Keys |-> NoWriter]
    /\ wobjs = <<>>
    /\ callback_lock = Free
    /\ tasks = <<>>
    /\ spc = [t \in SThreads |-> "idle"]
    /\ sloc = [t \in SThreads |-> NoLocals]
    /\ nextId = 0
    /\ nWrites = 0
    /\ seen = [i \in Ids |-> <<>>]
    /\ rmCount = [i \in Ids |-> 0]
    /\ handed = [k \in Keys |-> {}]

\* An add_callback that fills the reverse index only: the callback is never
\* put under its key.
add_1_reverse_index_only(t, k, f) ==
    /\ spc[t] = "idle"
    /\ callback_lock = Free
    /\ nextId < MaxIds
    /\ nextId' = nextId + 1
    /\ callback_lock' = t
    /\ sloc' = [sloc EXCEPT ![t] = [NoLocals EXCEPT !.key = k, !.f = f, !.id = nextId + 1]]
    /\ spc' = [spc EXCEPT ![t] = "add_2"]
    /\ UNCHANGED <<callbacks, callback_keys, writers, wobjs, tasks, nWrites,
                   seen, rmCount, handed>>
    /\ UNCHANGED <<qvars, tvars>>

\* add_callback: the id is generated (uuid4: never one generated before),
\* `with self._callback_lock:` is entered and self.callbacks[key][id] = f runs.
add_1(t, k, f) ==
    /\ spc[t] = "idle"
    /\ callback_lock = Free
    /\ nextId < MaxIds
    /\ nextId' = nextId + 1
    /\ callback_lock' = t
    /\ callbacks' = [callbacks EXCEPT ![k] = Append(@, [id |-> nextId + 1, f |-> f])]
    /\ sloc' = [sloc EXCEPT ![t] = [NoLocals EXCEPT !.key = k, !.f = f, !.id = nextId + 1]]
    /\ spc' = [spc EXCEPT ![t] = "add_2"]
    /\ UNCHANGED <<callback_keys, writers, wobjs, tasks, nWrites, seen, rmCount, handed>>
    /\ UNCHANGED <<qvars, tvars>>

\* An add_callback that returns the id without entering it in the reverse
\* index.
add_2_no_reverse_index(t) ==
    /\ spc[t] = "add_2"
    /\ callback_lock = t
    /\ callback_lock' = Free
    /\ spc' = [spc EXCEPT ![t] = "idle"]
    /\ sloc' = [sloc EXCEPT ![t] = NoLocals]
    /\ UNCHANGED <<callbacks, callback_keys, writers, wobjs, tasks, nextId,
                   nWrites, seen, rmCount, handed>>
    /\ UNCHANGED <<qvars, tvars>>

\* add_callback: self._callback_keys[id] = key; the lock is released and the
\* id returned.
add_2(t) ==
    /\ spc[t] = "add_2"
    /\ callback_lock = t
    /\ callback_keys' = [callback_keys EXCEPT ![sloc[t].id] = sloc[t].key]
    /\ callback_lock' = Free
    /\ spc' = [spc EXCEPT ![t] = "idle"]
    /\ sloc' = [sloc EXCEPT ![t] = NoLocals]
    /\ UNCHANGED <<callbacks, writers, wobjs, tasks, nextId, nWrites, seen,
                   rmCount, handed>>
    /\ UNCHANGED <<qvars, tvars>>

\* dict assignment d[id] = f: the entry of that id is replaced where it
\* stands, a new id is added at the end.
DictSet(entries, id, f) ==
    IF id \in Range(IdsOf(entries))
    THEN [n \in 1..Len(entries) |->
            IF entries[n].id = id THEN [id |-> id, f |-> f] ELSE entries[n]]
    ELSE Append(entries, [id |-> id, f |-> f])

\* An add_callback whose id counts the callbacks registered under the key
\* ("<key>::<name>::<n>") instead of carrying a uuid.
add_call_id_by_count(t, k, f) ==
    /\ spc[t] = "idle"
    /\ nextId < MaxIds
    /\ nextId' = nextId + 1
    /\ sloc' = [sloc EXCEPT ![t] = [NoLocals EXCEPT !.key = k, !.f = f,
                                        !.id = Len(callbacks[k]) + 1]]
    /\ spc' = [spc EXCEPT ![t] = "add_lock"]
    /\ UNCHANGED <<callbacks, callback_keys, writers, wobjs, callback_lock,
                   tasks, nWrites, seen, rmCount, handed>>
    /\ UNCHANGED <<qvars, tvars>>

\* add_callback, statement by statement: the id is generated before the lock
\* is asked for (uuid4: never one generated before, in any thread).
add_call(t, k, f) ==
    /\ spc[t] = "idle"
    /\ nextId < MaxIds
    /\ nextId' = nextId + 1
    /\ sloc' = [sloc EXCEPT ![t] = [NoLocals EXCEPT !.key = k, !.f = f,
                                        !.id = nextId + 1]]
    /\ spc' = [spc EXCEPT ![t] = "add_lock"]
    /\ UNCHANGED <<callbacks, callback_keys, writers, wobjs, callback_lock,
                   tasks, nWrites, seen, rmCount, handed>>
    /\ UNCHANGED <<qvars, tvars>>

\* add_callback: `with self._callback_lock:` is entered and
\* self.callbacks[key][id] = f runs.
add_enter(t) ==
    /\ spc[t] = "add_lock"
    /\ callback_lock = Free
    /\ callback_lock' = t
    /\ callbacks' = [callbacks EXCEPT ![sloc[t].key] =
                        DictSet(@, sloc[t].id, sloc[t].f)]
    /\ spc' = [spc EXCEPT ![t] = "add_2"]
    /\ UNCHANGED <<callback_keys, writers, wobjs, tasks, sloc, nextId, nWrites,
                   seen, rmCount, handed>>
    /\ UNCHANGED <<qvars, tvars>>

\* remove_callback, called with any id, issued or not:
\* `with self._callback_lock:` is entered.
remove_acquire(t, id) ==
    /\ spc[t] = "idle"
    /\ callback_lock = Free
    /\ callback_lock' = t
    /\ sloc' = [sloc EXCEPT ![t] = [NoLocals EXCEPT !.id = id]]
    /\ spc' = [spc EXCEPT ![t] = "remove_1"]
    /\ UNCHANGED <<callbacks, callback_keys, writers, wobjs, tasks, nextId,
                   nWrites, seen, rmCount, handed>>
    /\ UNCHANGED <<qvars, tvars>>

\* A remove_callback whose KeyError leaves the lock taken (acquire and release
\* by hand, no with block).
remove_raise_keeps_lock(t) ==
    /\ spc[t] = "remove_1"
    /\ callback_lock = t
    /\ callback_keys[sloc[t].id] = NoKey
    /\ spc' = [spc EXCEPT ![t] = "idle"]
    /\ sloc' = [sloc EXCEPT ![t] = NoLocals]
    /\ UNCHANGED <<callbacks, callback_keys, writers, wobjs, callback_lock,
                   tasks, nextId, nWrites, seen, rmCount, handed>>
    /\ UNCHANGED <<qvars, tvars>>

\* remove_callback: self._callback_keys[id] raises KeyError, which leaves the
\* with block and releases the lock.
remove_raise(t) ==
    /\ spc[t] = "remove_1"
    /\ callback_lock = t
    /\ callback_keys[sloc[t].id] = NoKey
    /\ callback_lock' = Free
    /\ spc' = [spc EXCEPT ![t] = "idle"]
    /\ sloc' = [sloc EXCEPT ![t] = NoLocals]
    /\ UNCHANGED <<callbacks, callback_keys, writers, wobjs, tasks, nextId,
                   nWrites, seen, rmCount, handed>>
    /\ UNCHANGED <<qvars, tvars>>

\* A remove_callback that looks the key up and leaves the reverse index alone.
remove_1_keep_key(t) ==
    /\ spc[t] = "remove_1"
    /\ callback_lock = t
    /\ callback_keys[sloc[t].id] # NoKey
    /\ sloc' = [sloc EXCEPT ![t].key = callback_keys[sloc[t].id]]
    /\ spc' = [spc EXCEPT ![t] = "remove_2"]
    /\ UNCHANGED <<callbacks, callback_keys, writers, wobjs, callback_lock,
                   tasks, nextId, nWrites, seen, rmCount, handed>>
    /\ UNCHANGED <<qvars, tvars>>

\* remove_callback: key = self._callback_keys[id]; del self._callback_keys[id]
remove_1(t) ==
    /\ spc[t] = "remove_1"
    /\ callback_lock = t
    /\ callback_keys[sloc[t].id] # NoKey
    /\ sloc' = [sloc EXCEPT ![t].key = callback_keys[sloc[t].id]]
    /\ callback_keys' = [callback_keys EXCEPT ![sloc[t].id] = NoKey]
    /\ spc' = [spc EXCEPT ![t] = "remove_2"]
    /\ UNCHANGED <<callbacks, writers, wobjs, callback_lock, tasks, nextId,
                   nWrites, seen, rmCount, handed>>
    /\ UNCHANGED <<qvars, tvars>>

\* A remove_callback that returns without deleting from self.callbacks[key].
remove_2_keep_callback(t) ==
    /\ spc[t] = "remove_2"
    /\ callback_lock = t
    /\ rmCount' = [rmCount EXCEPT ![sloc[t].id] = @ + 1]
    /\ callback_lock' = Free
    /\ spc' = [spc EXCEPT ![t] = "idle"]
    /\ sloc' = [sloc EXCEPT ![t] = NoLocals]
    /\ UNCHANGED <<callbacks, callback_keys, writers, wobjs, tasks, nextId,
                   nWrites, seen, handed>>
    /\ UNCHANGED <<qvars, tvars>>

\* A remove_callback that also cancels the callback's work items that have
\* not run yet.
remove_2_cancels_pending(t) ==
    /\ spc[t] = "remove_2"
    /\ callback_lock = t
    /\ IF sloc[t].id \in Range(IdsOf(callbacks[sloc[t].key]))
       THEN /\ callbacks' = [callbacks EXCEPT ![sloc[t].key] = DictDel(@, sloc[t].id)]
            /\ rmCount' = [rmCount EXCEPT ![sloc[t].id] = @ + 1]
       ELSE UNCHANGED <<callbacks, rmCount>>
    /\ tasks' = [j \in 1..Len(tasks) |->
                    IF tasks[j].cb = sloc[t].id /\ tasks[j].st = "pending"
                    THEN [tasks[j] EXCEPT !.st = "cancelled"]
                    ELSE tasks[j]]
    /\ callback_lock' = Free
    /\ spc' = [spc EXCEPT ![t] = "idle"]
    /\ sloc' = [sloc EXCEPT ![t] = NoLocals]
    /\ UNCHANGED <<callback_keys, writers, wobjs, nextId, nWrites,
                   seen, handed>>
    /\ UNCHANGED <<qvars, tvars>>

\* remove_callback: del self.callbacks[key][id]; the lock is released. The
\* deletion raises KeyError should the id be missing from that dict.
remove_2(t) ==
    /\ spc[t] = "remove_2"
    /\ callback_lock = t
    /\ IF sloc[t].id \in Range(IdsOf(callbacks[sloc[t].key]))
       THEN /\ callbacks' = [callbacks EXCEPT ![sloc[t].key] = DictDel(@, sloc[t].id)]
            /\ rmCount' = [rmCount EXCEPT ![sloc[t].id] = @ + 1]
       ELSE UNCHANGED <<callbacks, rmCount>>
    /\ callback_lock' = Free
    /\ spc' = [spc EXCEPT ![t] = "idle"]
    /\ sloc' = [sloc EXCEPT ![t] = NoLocals]
    /\ UNCHANGED <<callback_keys, writers, wobjs, tasks, nextId, nWrites,
                   seen, handed>>
    /\ UNCHANGED <<qvars, tvars>>

\* store.writer(key) is called; nothing is locked.
writer_call(t, k) ==
    /\ spc[t] = "idle"
    /\ sloc' = [sloc EXCEPT ![t] = [NoLocals EXCEPT !.key = k]]
    /\ spc' = [spc EXCEPT ![t] = "writer_try"]
    /\ UNCHANGED <<callbacks, callback_keys, writers, wobjs, callback_lock,
                   tasks, nextId, nWrites, seen, rmCount, handed>>
    /\ UNCHANGED <<qvars, tvars>>

\* A writer that builds a new Writer although self.writers[key] is there.
writer_hit_recreate(t) ==
    /\ spc[t] = "writer_try"
    /\ writers[sloc[t].key] # NoWriter
    /\ wobjs' = Append(wobjs, sloc[t].key)
    /\ writers' = [writers EXCEPT ![sloc[t].key] = Len(wobjs) + 1]
    /\ handed' = [handed EXCEPT ![sloc[t].key] = @ \cup {Len(wobjs) + 1}]
    /\ spc' = [spc EXCEPT ![t] = "idle"]
    /\ sloc' = [sloc EXCEPT ![t] = NoLocals]
    /\ UNCHANGED <<callbacks, callback_keys, callback_lock, tasks, nextId,
                   nWrites, seen, rmCount>>
    /\ UNCHANGED <<qvars, tvars>>

\* writer: self.writers[key] is there and is returned.
writer_hit(t) ==
    /\ spc[t] = "writer_try"
    /\ writers[sloc[t].key] # NoWriter
    /\ handed' = [handed EXCEPT ![sloc[t].key] = @ \cup {writers[sloc[t].key]}]
    /\ spc' = [spc EXCEPT ![t] = "idle"]
    /\ sloc' = [sloc EXCEPT ![t] = NoLocals]
    /\ UNCHANGED <<callbacks, callback_keys, writers, wobjs, callback_lock,
                   tasks, nextId, nWrites, seen, rmCount>>
    /\ UNCHANGED <<qvars, tvars>>

\* writer: self.writers[key] raises KeyError, which is caught.
writer_miss(t) ==
    /\ spc[t] = "writer_try"
    /\ writers[sloc[t].key] = NoWriter
    /\ spc' = [spc EXCEPT ![t] = "writer_new"]
    /\ UNCHANGED <<callbacks, callback_keys, writers, wobjs, callback_lock,
                   tasks, sloc, nextId, nWrites, seen, rmCount, handed>>
    /\ UNCHANGED <<qvars, tvars>>

\* writer: w = Writer(key, self._submitter(key)); self.writers[key] = w;
\* return w
writer_new(t) ==
    /\ spc[t] = "writer_new"
    /\ wobjs' = Append(wobjs, sloc[t].key)
    /\ writers' = [writers EXCEPT ![sloc[t].key] = Len(wobjs) + 1]
    /\ handed' = [handed EXCEPT ![sloc[t].key] = @ \cup {Len(wobjs) + 1}]
    /\ spc' = [spc EXCEPT ![t] = "idle"]
    /\ sloc' = [sloc EXCEPT ![t] = NoLocals]
    /\ UNCHANGED <<callbacks, callback_keys, callback_lock, tasks, nextId,
                   nWrites, seen, rmCount>>
    /\ UNCHANGED <<qvars, tvars>>

\* The Writer objects that store.writer has returned to some caller.
Handles == UNION {handed[k] : k \in Keys}

\* Writer.write(value) -> self.submit(value), called on a Writer some caller
\* holds. The key is the one the Writer's submit closure was built for.
write_call(t, w, v) ==
    /\ spc[t] = "idle"
    /\ w \in Handles
    /\ v = NextWrite
    /\ nWrites' = nWrites + 1
    /\ sloc' = [sloc EXCEPT ![t] = [NoLocals EXCEPT !.key = wobjs[w], !.val = v,
                                        !.rm0 = removed, !.iss0 = issued]]
    /\ spc' = [spc EXCEPT ![t] = "write_snapshot"]
    /\ UNCHANGED <<callbacks, callback_keys, writers, wobjs, callback_lock,
                   tasks, nextId, seen, rmCount, handed>>
    /\ UNCHANGED <<qvars, tvars>>

\* A submit that takes the callbacks of every key.
write_snapshot_all_keys(t) ==
    /\ spc[t] = "write_snapshot"
    /\ callback_lock = Free
    /\ sloc' = [sloc EXCEPT ![t].snap = callbacks["k1"] \o callbacks["k2"]]
    /\ spc' = [spc EXCEPT ![t] = "write_loop"]
    /\ UNCHANGED <<callbacks, callback_keys, writers, wobjs, callback_lock,
                   tasks, nextId, nWrites, seen, rmCount,
                   handed>>
    /\ UNCHANGED <<qvars, tvars>>

\* A submit that copies self.callbacks[key] without taking the lock.
write_snapshot_unlocked(t) ==
    /\ spc[t] = "write_snapshot"
    /\ sloc' = [sloc EXCEPT ![t].snap = callbacks[sloc[t].key]]
    /\ spc' = [spc EXCEPT ![t] = "write_loop"]
    /\ UNCHANGED <<callbacks, callback_keys, writers, wobjs, callback_lock,
                   tasks, nextId, nWrites, seen, rmCount,
                   handed>>
    /\ UNCHANGED <<qvars, tvars>>

\* submit: with self._callback_lock:
\*             callbacks = list(self.callbacks[key].values())
write_snapshot(t) ==
    /\ spc[t] = "write_snapshot"
    /\ callback_lock = Free
    /\ sloc' = [sloc EXCEPT ![t].snap = callbacks[sloc[t].key]]
    /\ spc' = [spc EXCEPT ![t] = "write_loop"]
    /\ UNCHANGED <<callbacks, callback_keys, writers, wobjs, callback_lock,
                   tasks, nextId, nWrites, seen, rmCount,
                   handed>>
    /\ UNCHANGED <<qvars, tvars>>

\* A submit loop that hands the snapshot's first callback to the executor on
\* every turn.
NewTaskFirst(t) ==
    [cb |-> sloc[t].snap[1].id, f |-> sloc[t].snap[1].f,
     val |-> sloc[t].val, key |-> sloc[t].key,
     st |-> "pending", hook |-> FALSE, hkey |-> NoKey,
     logged |-> 0, logkey |-> NoKey]

\* The work item executor.submit(callback, val) queues for the next callback
\* of the snapshot.
NewTask(t) ==
    [cb |-> sloc[t].snap[Len(sloc[t].fs) + 1].id,
     f |-> sloc[t].snap[Len(sloc[t].fs) + 1].f,
     val |-> sloc[t].val, key |-> sloc[t].key,
     st |-> "pending", hook |-> FALSE, hkey |-> NoKey,
     logged |-> 0, logkey |-> NoKey]

\* A submit to a pool that puts the newest work item at the head of its queue;
\* the handles held by the callers move up by one.
write_submit_front(t) ==
    /\ spc[t] = "write_loop"
    /\ Len(sloc[t].fs) < Len(sloc[t].snap)
    /\ tasks' = <<NewTask(t)>> \o tasks
    /\ sloc' = [u \in SThreads |->
                [sloc[u] EXCEPT
                    !.fs = [n \in 1..Len(sloc[u].fs) |-> sloc[u].fs[n] + 1],
                    !.fut = IF u = t THEN 1
                            ELSE IF sloc[u].fut = 0 THEN 0
                            ELSE sloc[u].fut + 1]]
    /\ spc' = [spc EXCEPT ![t] = "write_hook"]
    /\ UNCHANGED <<callbacks, callback_keys, writers, wobjs, callback_lock,
                   nextId, nWrites, seen, rmCount, handed>>
    /\ UNCHANGED <<qvars, tvars>>

\* submit: future = self.executor.submit(callback, val), for the next callback
\* of the snapshot.
write_submit(t) ==
    /\ spc[t] = "write_loop"
    /\ Len(sloc[t].fs) < Len(sloc[t].snap)
    /\ tasks' = Append(tasks, NewTask(t))
    /\ sloc' = [sloc EXCEPT ![t].fut = Len(tasks) + 1]
    /\ spc' = [spc EXCEPT ![t] = "write_hook"]
    /\ UNCHANGED <<callbacks, callback_keys, writers, wobjs, callback_lock,
                   nextId, nWrites, seen, rmCount, handed>>
    /\ UNCHANGED <<qvars, tvars>>

\* _log_exception(key)(future): one ERROR record, naming the key the hook was
\* made for, if the future holds an exception.
LogException(task) ==
    IF task.st = "exc"
    THEN [task EXCEPT !.logged = @ + 1, !.logkey = task.hkey]
    ELSE task

\* A submit whose hook is only stored, also when the future is done already.
write_hook_attach_only(t) ==
    /\ spc[t] = "write_hook"
    /\ tasks' = [tasks EXCEPT ![sloc[t].fut] =
                    [@ EXCEPT !.hook = TRUE, !.hkey = sloc[t].key]]
    /\ sloc' = [sloc EXCEPT ![t].fs = Append(@, sloc[t].fut), ![t].fut = 0]
    /\ spc' = [spc EXCEPT ![t] = "write_loop"]
    /\ UNCHANGED <<callbacks, callback_keys, writers, wobjs, callback_lock,
                   nextId, nWrites, seen, rmCount, handed>>
    /\ UNCHANGED <<qvars, tvars>>

\* submit: future.add_done_callback(_log_exception(key)), which calls the hook
\* at once if the future is already done; fs.append(future)
write_hook(t) ==
    /\ spc[t] = "write_hook"
    /\ tasks' = [tasks EXCEPT ![sloc[t].fut] =
                    IF @.st = "pending"
                    THEN [@ EXCEPT !.hook = TRUE, !.hkey = sloc[t].key]
                    ELSE LogException([@ EXCEPT !.hook = TRUE,
                                                !.hkey = sloc[t].key])]
    /\ sloc' = [sloc EXCEPT ![t].fs = Append(@, sloc[t].fut), ![t].fut = 0]
    /\ spc' = [spc EXCEPT ![t] = "write_loop"]
    /\ UNCHANGED <<callbacks, callback_keys, writers, wobjs, callback_lock,
                   nextId, nWrites, seen, rmCount, handed>>
    /\ UNCHANGED <<qvars, tvars>>

\* A submit that returns its handles only once their work items are done.
write_return_joins(t) ==
    /\ spc[t] = "write_loop"
    /\ Len(sloc[t].fs) = Len(sloc[t].snap)
    /\ \A n \in 1..Len(sloc[t].fs) : tasks[sloc[t].fs[n]].st # "pending"
    /\ spc' = [spc EXCEPT ![t] = "idle"]
    /\ sloc' = [sloc EXCEPT ![t] = NoLocals]
    /\ UNCHANGED <<callbacks, callback_keys, writers, wobjs, callback_lock,
                   tasks, nextId, nWrites, seen, rmCount, handed>>
    /\ UNCHANGED <<qvars, tvars>>

\* submit: the loop is over; return fs
write_return(t) ==
    /\ spc[t] = "write_loop"
    /\ Len(sloc[t].fs) = Len(sloc[t].snap)
    /\ spc' = [spc EXCEPT ![t] = "idle"]
    /\ sloc' = [sloc EXCEPT ![t] = NoLocals]
    /\ UNCHANGED <<callbacks, callback_keys, writers, wobjs, callback_lock,
                   tasks, nextId, nWrites, seen, rmCount,
                   handed>>
    /\ UNCHANGED <<qvars, tvars>>

\* A wait on the handles that comes back while a work item is unfinished.
futures_wait_return_early(t) ==
    /\ spc[t] = "futures_wait"
    /\ spc' = [spc EXCEPT ![t] = "idle"]
    /\ sloc' = [sloc EXCEPT ![t] = NoLocals]
    /\ UNCHANGED <<callbacks, callback_keys, writers, wobjs, callback_lock,
                   tasks, nextId, nWrites, seen, rmCount, handed>>
    /\ UNCHANGED <<qvars, tvars>>

\* fs = w.write(value); concurrent.futures.wait(fs): submit's loop is over, it
\* returns fs, and the caller goes on to wait on these handles.
write_return_wait(t) ==
    /\ spc[t] = "write_loop"
    /\ Len(sloc[t].fs) = Len(sloc[t].snap)
    /\ spc' = [spc EXCEPT ![t] = "futures_wait"]
    /\ UNCHANGED <<callbacks, callback_keys, writers, wobjs, callback_lock,
                   tasks, sloc, nextId, nWrites, seen, rmCount, handed>>
    /\ UNCHANGED <<qvars, tvars>>

\* concurrent.futures.wait(fs) returns: every work item handed back by the
\* write is done, normally or with an exception.
futures_wait_return(t) ==
    /\ spc[t] = "futures_wait"
    /\ \A n \in 1..Len(sloc[t].fs) : tasks[sloc[t].fs[n]].st # "pending"
    /\ spc' = [spc EXCEPT ![t] = "idle"]
    /\ sloc' = [sloc EXCEPT ![t] = NoLocals]
    /\ UNCHANGED <<callbacks, callback_keys, writers, wobjs, callback_lock,
                   tasks, nextId, nWrites, seen, rmCount, handed>>
    /\ UNCHANGED <<qvars, tvars>>

\* The executor takes work items in submission order and runs at most Workers
\* of them at a time: item i can run while at most Workers items are
\* unfinished up to and including it.
CanRun(i) ==
    /\ i \in 1..Len(tasks)
    /\ tasks[i].st = "pending"
    /\ Cardinality({j \in 1..i : tasks[j].st = "pending"}) <= Workers

\* A worker runs callback(val) and the callback returns: the future is done
\* and its done-callbacks run.
task_ok(i) ==
    /\ CanRun(i)
    /\ tasks[i].f = "append"
    /\ seen' = [seen EXCEPT ![tasks[i].cb] = Append(@, tasks[i].val)]
    /\ tasks' = [tasks EXCEPT ![i] =
                    IF @.hook THEN LogException([@ EXCEPT !.st = "ok"])
                    ELSE [@ EXCEPT !.st = "ok"]]
    /\ UNCHANGED <<callbacks, callback_keys, writers, wobjs, callback_lock,
                   spc, sloc, nextId, nWrites, rmCount,
                   handed>>
    /\ UNCHANGED <<qvars, tvars>>

\* An executor in which a raising callback takes the write's other pending
\* work items down with it.
task_raise_cancels_siblings(i) ==
    /\ CanRun(i)
    /\ tasks[i].f = "raises"
    /\ tasks' = [j \in 1..Len(tasks) |->
                    IF tasks[j].val = tasks[i].val /\ tasks[j].st = "pending"
                    THEN [tasks[j] EXCEPT !.st = "exc"]
                    ELSE tasks[j]]
    /\ UNCHANGED <<callbacks, callback_keys, writers, wobjs, callback_lock,
                   spc, sloc, nextId, nWrites, seen, rmCount, handed>>
    /\ UNCHANGED <<qvars, tvars>>

\* A worker runs callback(val) and the callback raises: the executor stores
\* the exception in the future and the future's done-callbacks run.
task_raise(i) ==
    /\ CanRun(i)
    /\ tasks[i].f = "raises"
    /\ tasks' = [tasks EXCEPT ![i] =
                    IF @.hook THEN LogException([@ EXCEPT !.st = "exc"])
                    ELSE [@ EXCEPT !.st = "exc"]]
    /\ UNCHANGED <<callbacks, callback_keys, writers, wobjs, callback_lock,
                   spc, sloc, nextId, nWrites, seen, rmCount, handed>>
    /\ UNCHANGED <<qvars, tvars>>

\* A pool that runs its work items one after the other, in submission order
\* (ThreadPoolExecutor(max_workers=1)): item i runs when every item submitted
\* before it is done.
SerialPool(i) == \A j \in 1..(i - 1) : j <= Len(tasks) => tasks[j].st # "pending"

\* The largest number of work items the bounded writes can queue.
MaxTasks == MaxWrites * MaxIds

(***************************************************************************)
(* StoppableThread                                                         *)
(***************************************************************************)
\* The interval argument of wait: None, 0, or a positive number of seconds.
Intervals == {"none", "zero", "pos"}

\* Python's True and False as results.
Bool(b) == IF b THEN "True" ELSE "False"

\* A thread that has called nothing yet.
NoCall == [op |-> "none", interval |-> "none", res |-> "None", set0 |-> FALSE]

\* The thread's call: its name, wait's interval, the flag as the call found it
\* and, once it has returned, its result.
Call(op, interval, res) ==
    [op |-> op, interval |-> interval, res |-> res, set0 |-> thread_stop_event]

\* StoppableThread.__init__, all of it but the flag of the event.
TIdle ==
    /\ ev_owner = Free
    /\ ev_waiters = {}
    /\ tpc = [t \in TThreads |-> "idle"]
    /\ tloc = [t \in TThreads |-> NoCall]

\* StoppableThread.__init__ with stop_event=None: a new threading.Event, whose
\* flag is clear.
TInit == thread_stop_event = FALSE /\ TIdle

\* StoppableThread.__init__ with an event passed in, which is clear or has
\* been set before.
TInitShared == thread_stop_event \in BOOLEAN /\ TIdle

\* stopped: return self.stop_event.is_set(), which reads the flag without
\* taking the event's lock.
stopped_call(t) ==
    /\ tpc[t] = "idle"
    /\ tloc' = [tloc EXCEPT ![t] = Call("stopped", "none", Bool(thread_stop_event))]
    /\ UNCHANGED <<thread_stop_event, ev_owner, ev_waiters, tpc>>
    /\ UNCHANGED <<qvars, svars>>

\* running: return not self.stopped()
running_call(t) ==
    /\ tpc[t] = "idle"
    /\ tloc' = [tloc EXCEPT ![t] = Call("running", "none", Bool(~thread_stop_event))]
    /\ UNCHANGED <<thread_stop_event, ev_owner, ev_waiters, tpc>>
    /\ UNCHANGED <<qvars, svars>>

\* stop: self.stop_event.set(), and the same call made on the shared event by
\* its other holder (op tells the two apart). Event.set enters the event's
\* lock.
set_acquire(t, op) ==
    /\ tpc[t] = "idle"
    /\ ev_owner = Free
    /\ ev_owner' = t
    /\ tpc' = [tpc EXCEPT ![t] = "set"]
    /\ tloc' = [tloc EXCEPT ![t] = Call(op, "none", "running")]
    /\ UNCHANGED <<thread_stop_event, ev_waiters>>
    /\ UNCHANGED <<qvars, svars>>

\* A set that flips the flag.
set_flag_toggles(t) ==
    /\ tpc[t] = "set"
    /\ ev_owner = t
    /\ thread_stop_event' = ~thread_stop_event
    /\ tpc' = [tpc EXCEPT ![t] = "set_notify"]
    /\ UNCHANGED <<ev_owner, ev_waiters, tloc>>
    /\ UNCHANGED <<qvars, svars>>

\* Event.set: self._flag = True
set_flag(t) ==
    /\ tpc[t] = "set"
    /\ ev_owner = t
    /\ thread_stop_event' = TRUE
    /\ tpc' = [tpc EXCEPT ![t] = "set_notify"]
    /\ UNCHANGED <<ev_owner, ev_waiters, tloc>>
    /\ UNCHANGED <<qvars, svars>>

\* A set that wakes nobody.
set_notify_nobody(t) ==
    /\ tpc[t] = "set_notify"
    /\ ev_owner = t
    /\ tpc' = [tpc EXCEPT ![t] = "idle"]
    /\ ev_owner' = Free
    /\ tloc' = [tloc EXCEPT ![t].res = "None"]
    /\ UNCHANGED <<thread_stop_event, ev_waiters>>
    /\ UNCHANGED <<qvars, svars>>

\* Event.set: self._cond.notify_all(); the lock is released and stop returns.
\* Every thread blocked in wait is woken.
set_notify(t) ==
    /\ tpc[t] = "set_notify"
    /\ ev_owner = t
    /\ tpc' = [u \in TThreads |->
                IF u = t THEN "idle"
                ELSE IF u \in ev_waiters THEN "wait_woken"
                ELSE tpc[u]]
    /\ ev_waiters' = {}
    /\ ev_owner' = Free
    /\ tloc' = [tloc EXCEPT ![t].res = "None"]
    /\ UNCHANGED thread_stop_event
    /\ UNCHANGED <<qvars, svars>>

\* A wait that blocks whatever the flag.
wait_call_ignores_flag(t, interval) ==
    /\ tpc[t] = "idle"
    /\ ev_owner = Free
    /\ tloc' = [tloc EXCEPT ![t] = Call("wait", interval, "running")]
    /\ tpc' = [tpc EXCEPT ![t] = "wait"]
    /\ ev_waiters' = ev_waiters \cup {t}
    /\ UNCHANGED <<thread_stop_event, ev_owner>>
    /\ UNCHANGED <<qvars, svars>>

\* wait: return self.stop_event.wait(interval). Event.wait enters the event's
\* lock and reads the flag: when it is set, True is returned at once;
\* otherwise the thread waits on the event's condition, which registers it
\* as a waiter and releases the lock.
wait_call(t, interval) ==
    /\ tpc[t] = "idle"
    /\ ev_owner = Free
    /\ IF thread_stop_event
       THEN /\ tloc' = [tloc EXCEPT ![t] = Call("wait", interval, "True")]
            /\ UNCHANGED <<tpc, ev_waiters>>
       ELSE /\ tloc' = [tloc EXCEPT ![t] = Call("wait", interval, "running")]
            /\ tpc' = [tpc EXCEPT ![t] = "wait"]
            /\ ev_waiters' = ev_waiters \cup {t}
    /\ UNCHANGED <<thread_stop_event, ev_owner>>
    /\ UNCHANGED <<qvars, svars>>

\* Event.wait: the interval has elapsed (at once when it is 0) without a
\* notification; the thread stops waiting, whoever holds the event's lock.
wait_timeout(t) ==
    /\ tpc[t] = "wait"
    /\ t \in ev_waiters
    /\ tloc[t].interval # "none"
    /\ tpc' = [tpc EXCEPT ![t] = "wait_timedout"]
    /\ ev_waiters' = ev_waiters \ {t}
    /\ UNCHANGED <<thread_stop_event, ev_owner, tloc>>
    /\ UNCHANGED <<qvars, svars>>

\* Event.wait: the thread takes the event's lock again and returns whether it
\* was notified (True) or gave up (False).
wait_return(t) ==
    /\ tpc[t] \in {"wait_woken", "wait_timedout"}
    /\ ev_owner = Free
    /\ tloc' = [tloc EXCEPT ![t].res =
                    Bool(tpc[t] = "wait_woken")]
    /\ tpc' = [tpc EXCEPT ![t] = "idle"]
    /\ UNCHANGED <<thread_stop_event, ev_owner, ev_waiters>>
    /\ UNCHANGED <<qvars, svars>>

(***************************************************************************)
(* Specifications                                                          *)
(***************************************************************************)
\* Any number of queue threads calling put, get (with any timeout) and stop.
QNext ==
    \E t \in QThreads :
        \/ \E v \in Values : put_acquire(t, v)
        \/ put_body(t)
        \/ stop_acquire(t)
        \/ stop_body(t)
        \/ \E tmo \in Timeouts : get_acquire(t, tmo)
        \/ get_raise_stopped(t)
        \/ get_return(t)
        \/ get_wait(t)
        \/ get_raise_timeout(t)
        \/ get_wake(t)
        \/ get_wake_timeout(t)

Init == QInit /\ SInit /\ TInit

Spec == Init /\ [][QNext]_vars

\* Both threads register and remove callbacks and write through the Writers
\* that thread s1 obtains from store.writer, one call after the other; the
\* executor's workers run the submitted callbacks.
SNext ==
    \/ \E t \in SThreads :
        \/ \E k \in Keys, f \in Fns : add_1(t, k, f)
        \/ add_2(t)
        \/ \E id \in Ids : remove_acquire(t, id)
        \/ remove_raise(t)
        \/ remove_1(t)
        \/ remove_2(t)
    \/ \E t \in {"s1"} :
        \/ \E w \in 1..Len(wobjs), v \in WVals : write_call(t, w, v)
        \/ write_snapshot(t)
        \/ write_submit(t)
        \/ write_hook(t)
        \/ write_return(t)
        \/ \E k \in Keys : writer_call(t, k)
        \/ writer_hit(t)
        \/ writer_miss(t)
        \/ writer_new(t)
    \/ \E i \in 1..MaxTasks :
        \/ task_ok(i)
        \/ task_raise(i)

\* A store next to a default-constructed queue that nobody uses.
StoreInit == SInit /\ QInit /\ maxlen = NoneSize /\ TInit

StoreSpec == StoreInit /\ [][SNext]_vars

\* test_callback_error_logged, with any callbacks: one thread registers
\* callbacks, obtains Writers and writes; nothing is removed. A call that has started runs to its end, and
\* the executor, which is never shut down, runs every work item it was given.
IsolationNext ==
    \/ \E t \in {"s1"} :
        \/ \E k \in Keys, f \in Fns : add_1(t, k, f)
        \/ add_2(t)
        \/ \E k \in Keys : writer_call(t, k)
        \/ writer_hit(t)
        \/ writer_miss(t)
        \/ writer_new(t)
        \/ \E w \in 1..Len(wobjs), v \in WVals : write_call(t, w, v)
        \/ write_snapshot(t)
        \/ write_submit(t)
        \/ write_hook(t)
        \/ write_return(t)
    \/ \E i \in 1..MaxTasks :
        \/ task_ok(i)
        \/ task_raise(i)

WriteFair(t) ==
    /\ WF_vars(write_snapshot(t))
    /\ WF_vars(write_submit(t))
    /\ WF_vars(write_hook(t))
    /\ WF_vars(write_return(t))

ExecutorFair ==
    \A i \in 1..MaxTasks : WF_vars(task_ok(i)) /\ WF_vars(task_raise(i))

IsolationSpec ==
    StoreInit /\ [][IsolationNext]_vars /\ WriteFair("s1") /\ ExecutorFair

\* A thread that is inside a call keeps running: once it holds the lock it
\* executes the statements under it, and a waiter that was notified, or whose
\* timeout ran out, gets the lock back even when other threads keep taking it.
\* Nothing obliges a thread to start a call.
PutStopFair(t) ==
    /\ WF_vars(put_body(t))
    /\ WF_vars(stop_body(t))

GetFair(t) ==
    /\ WF_vars(get_raise_stopped(t))
    /\ WF_vars(get_return(t))
    /\ WF_vars(get_wait(t))
    /\ WF_vars(get_raise_timeout(t))
    /\ SF_vars(get_wake(t))
    /\ SF_vars(get_wake_timeout(t))

\* test_evicting_queue_blocking_get: one consumer calling get() with no
\* timeout, the other threads calling put, nobody calling stop.
BlockingGetNext ==
    \/ \E t \in {"t1"} :
        \/ get_acquire(t, "none")
        \/ get_return(t)
        \/ get_wait(t)
        \/ get_wake(t)
    \/ \E t \in {"t2", "t3"} :
        \/ \E v \in Values : put_acquire(t, v)
        \/ put_body(t)

BlockingGetSpec ==
    /\ Init
    /\ [][BlockingGetNext]_vars
    /\ GetFair("t1")
    /\ \A t \in {"t2", "t3"} : PutStopFair(t)

\* test_evicting_queue_stop: two consumers calling get with any timeout, a
\* third thread calling put and stop.
StopNext ==
    \/ \E t \in {"t1", "t2"} :
        \/ \E tmo \in Timeouts : get_acquire(t, tmo)
        \/ get_raise_stopped(t)
        \/ get_return(t)
        \/ get_wait(t)
        \/ get_raise_timeout(t)
        \/ get_wake(t)
        \/ get_wake_timeout(t)
    \/ \E t \in {"t3"} :
        \/ \E v \in Values : put_acquire(t, v)
        \/ put_body(t)
        \/ stop_acquire(t)
        \/ stop_body(t)

StopSpec ==
    /\ Init
    /\ [][StopNext]_vars
    /\ \A t \in {"t1", "t2"} : GetFair(t)
    /\ PutStopFair("t3")

\* One thread flushing and iterating (test_evicting_queue_flush, _iter,
\* _iter_timeout, _stop_iter, _stop_iter_timeout), a second consumer calling
\* get, a third thread calling put and stop. A generator is advanced when its
\* consumer pleases; flush advances its own without pause.
IterNext ==
    \/ \E t \in {"t1"} :
        \/ flush_call(t)
        \/ \E tmo \in Timeouts : iter_timeout_call(t, tmo)
        \/ iter_call(t)
        \/ itr_next(t)
        \/ itr_yield(t)
        \/ itr_break(t)
    \/ \E t \in {"t2"} :
        \/ \E tmo \in Timeouts : get_acquire(t, tmo)
    \/ \E t \in {"t1", "t2"} :
        \/ get_raise_stopped(t)
        \/ get_return(t)
        \/ get_wait(t)
        \/ get_raise_timeout(t)
        \/ get_wake(t)
        \/ get_wake_timeout(t)
    \/ \E t \in {"t3"} :
        \/ \E v \in Values : put_acquire(t, v)
        \/ put_body(t)
        \/ stop_acquire(t)
        \/ stop_body(t)

IterFair(t) ==
    /\ WF_vars(itr[t].mode = "flush" /\ itr_next(t))
    /\ WF_vars(itr_yield(t))
    /\ WF_vars(itr_break(t))

IterSpec ==
    /\ Init
    /\ [][IterNext]_vars
    /\ IterFair("t1")
    /\ \A t \in {"t1", "t2"} : GetFair(t)
    /\ PutStopFair("t3")

\* test_evicting_queue_iter, test_evicting_queue_stop_iter: one thread
\* iterating over the queue, another calling put and stop.
StopIterNext ==
    \/ \E t \in {"t1"} :
        \/ iter_call(t)
        \/ itr_next(t)
        \/ itr_yield(t)
        \/ itr_break(t)
        \/ get_raise_stopped(t)
        \/ get_return(t)
        \/ get_wait(t)
        \/ get_wake(t)
    \/ \E t \in {"t3"} :
        \/ \E v \in Values : put_acquire(t, v)
        \/ put_body(t)
        \/ stop_acquire(t)
        \/ stop_body(t)

StopIterSpec ==
    /\ Init
    /\ [][StopIterNext]_vars
    /\ IterFair("t1")
    /\ GetFair("t1")
    /\ PutStopFair("t3")

\* test_evicting_queue_basic, test_evicting_queue_fifo: one thread calling
\* peek, peekleft, empty and get(timeout=0), a second one calling len and
\* empty, a third one calling put and stop.
PeekNext ==
    \/ \E t \in {"t1"} :
        \/ peek_call(t)
        \/ peekleft_call(t)
        \/ get_acquire(t, "zero")
        \/ get_raise_stopped(t)
        \/ get_return(t)
        \/ get_wait(t)
        \/ get_raise_timeout(t)
        \/ get_wake(t)
        \/ get_wake_timeout(t)
    \/ \E t \in {"t1", "t2"} :
        \/ empty_call(t)
    \/ \E t \in {"t2"} :
        \/ len_call(t)
    \/ \E t \in {"t3"} :
        \/ \E v \in Values : put_acquire(t, v)
        \/ put_body(t)
        \/ stop_acquire(t)
        \/ stop_body(t)

PeekSpec == Init /\ [][PeekNext]_vars
\* One thread obtains the Writer of a key and writes, waiting on the handles
\* a write returned or not; another registers callbacks under that key and
\* removes callbacks. A thread inside a
\* call keeps running and gets the registry lock when it asks for it again and
\* again, while the executor's workers may leave any callback unfinished for
\* ever: nothing is assumed about them.
NonBlockingNext ==
    \/ \E t \in {"s1"} :
        \/ \E k \in {"k1"} : writer_call(t, k)
        \/ writer_hit(t)
        \/ writer_miss(t)
        \/ writer_new(t)
        \/ \E w \in 1..Len(wobjs), v \in WVals : write_call(t, w, v)
        \/ write_snapshot(t)
        \/ write_submit(t)
        \/ write_hook(t)
        \/ write_return(t)
        \/ write_return_wait(t)
        \/ futures_wait_return(t)
    \/ \E t \in {"s2"} :
        \/ \E k \in {"k1"}, f \in Fns : add_1(t, k, f)
        \/ add_2(t)
        \/ \E id \in Ids : remove_acquire(t, id)
        \/ remove_raise(t)
        \/ remove_1(t)
        \/ remove_2(t)
    \/ \E i \in 1..MaxTasks :
        \/ task_ok(i)
        \/ task_raise(i)

\* The statements run while holding the registry lock.
RegistryFair(t) ==
    /\ WF_vars(add_2(t))
    /\ WF_vars(remove_raise(t))
    /\ WF_vars(remove_1(t))
    /\ WF_vars(remove_2(t))

NonBlockingSpec ==
    /\ StoreInit
    /\ [][NonBlockingNext]_vars
    /\ WriteFair("s1")
    /\ SF_vars(write_snapshot("s1"))
    /\ RegistryFair("s2")

\* test_multiple_callbacks, test_multiple_callbacks_multiple_writers: a single
\* thread registers callbacks, obtains Writers and writes, waiting on the
\* handles of each write before it does anything else; the executor's
\* workers run the submitted callbacks.
SequencedNext ==
    \/ \E t \in {"s1"} :
        \/ \E k \in Keys, f \in Fns : add_1(t, k, f)
        \/ add_2(t)
        \/ \E k \in Keys : writer_call(t, k)
        \/ writer_hit(t)
        \/ writer_miss(t)
        \/ writer_new(t)
        \/ \E w \in 1..Len(wobjs), v \in WVals : write_call(t, w, v)
        \/ write_snapshot(t)
        \/ write_submit(t)
        \/ write_hook(t)
        \/ write_return_wait(t)
        \/ futures_wait_return(t)
    \/ \E i \in 1..MaxTasks :
        \/ task_ok(i)
        \/ task_raise(i)

SequencedSpec == StoreInit /\ [][SequencedNext]_vars

\* test_remove_callback with the removal made by a second thread: one thread
\* registers callbacks under one key, obtains the key's Writer and writes
\* without waiting on the handles; the other removes callbacks at any time. The executor is never
\* shut down: its workers run every work item they were given.
RemovalNext ==
    \/ \E t \in {"s1"} :
        \/ \E k \in {"k1"}, f \in Fns : add_1(t, k, f)
        \/ add_2(t)
        \/ \E k \in {"k1"} : writer_call(t, k)
        \/ writer_hit(t)
        \/ writer_miss(t)
        \/ writer_new(t)
        \/ \E w \in 1..Len(wobjs), v \in WVals : write_call(t, w, v)
        \/ write_snapshot(t)
        \/ write_submit(t)
        \/ write_hook(t)
        \/ write_return(t)
    \/ \E t \in {"s2"} :
        \/ \E id \in Ids : remove_acquire(t, id)
        \/ remove_raise(t)
        \/ remove_1(t)
        \/ remove_2(t)
    \/ \E i \in 1..MaxTasks :
        \/ task_ok(i)
        \/ task_raise(i)

RemovalSpec ==
    /\ StoreInit
    /\ [][RemovalNext]_vars
    /\ WriteFair("s1")
    /\ SF_vars(write_snapshot("s1"))
    /\ WF_vars(add_2("s1"))
    /\ RegistryFair("s2")
    /\ ExecutorFair

\* The run loop of a StoppableThread and a second thread call wait, stopped
\* and running; a controller calls stop, and the holder of the shared event
\* sets it directly. A thread inside a call keeps running and gets the
\* event's lock back after a wake-up or a timeout; nothing obliges a thread
\* to call stop, and nothing is assumed about how long an interval lasts.
ThreadNext ==
    \/ \E t \in {"w1", "w2"} :
        \/ \E interval \in Intervals : wait_call(t, interval)
        \/ wait_timeout(t)
        \/ wait_return(t)
        \/ stopped_call(t)
        \/ running_call(t)
    \/ \E t \in {"c1"} : set_acquire(t, "stop")
    \/ \E t \in {"x1"} : set_acquire(t, "set")
    \/ \E t \in {"c1", "x1"} :
        \/ set_flag(t)
        \/ set_notify(t)

ThreadInit == QInit /\ maxlen = NoneSize /\ SInit /\ TInitShared

ThreadFair ==
    /\ \A t \in {"c1", "x1"} : WF_vars(set_flag(t)) /\ WF_vars(set_notify(t))
    /\ \A t \in {"w1", "w2"} : SF_vars(wait_return(t))

ThreadSpec == ThreadInit /\ [][ThreadNext]_vars /\ ThreadFair

\* Two threads call store.writer at the same time, for either key; thread s1
\* also registers callbacks and writes through any Writer that was returned,
\* and the executor runs the work items.
WriterRaceNext ==
    \/ \E t \in SThreads :
        \/ \E k \in Keys : writer_call(t, k)
        \/ writer_hit(t)
        \/ writer_miss(t)
        \/ writer_new(t)
    \/ \E t \in {"s1"} :
        \/ \E f \in Fns : add_1(t, "k1", f)
        \/ add_2(t)
        \/ \E w \in 1..Len(wobjs), v \in WVals : write_call(t, w, v)
        \/ write_snapshot(t)
        \/ write_submit(t)
        \/ write_hook(t)
        \/ write_return(t)
    \/ \E i \in 1..MaxTasks :
        \/ task_ok(i)
        \/ task_raise(i)

WriterRaceSpec == StoreInit /\ [][WriterRaceNext]_vars

\* test_evicting_queue_blocking_get / _blocking_iter with two consumers: two
\* threads call get() with no timeout, a third thread puts on the queue
\* without bound; nobody calls stop.
WakeupNext ==
    \/ \E t \in {"t1", "t2"} :
        \/ get_acquire(t, "none")
        \/ get_return(t)
        \/ get_wait(t)
        \/ get_wake(t)
    \/ \E t \in {"t3"} :
        \/ \E v \in Values : put_acquire(t, v)
        \/ put_body(t)

WakeupSpec ==
    /\ StoreInit
    /\ [][WakeupNext]_vars
    /\ \A t \in {"t1", "t2"} : GetFair(t)
    /\ PutStopFair("t3")

\* The same function is registered under one key by both threads, each
\* generating its id before it asks for the lock; thread s1 also obtains the
\* key's Writer and writes, thread s2 also removes callbacks; the executor
\* runs the work items.
DuplicateNext ==
    \/ \E t \in SThreads :
        \/ add_call(t, "k1", "append")
        \/ add_enter(t)
        \/ add_2(t)
    \/ \E t \in {"s1"} :
        \/ writer_call(t, "k1")
        \/ writer_hit(t)
        \/ writer_miss(t)
        \/ writer_new(t)
        \/ \E w \in 1..Len(wobjs), v \in WVals : write_call(t, w, v)
        \/ write_snapshot(t)
        \/ write_submit(t)
        \/ write_hook(t)
        \/ write_return(t)
    \/ \E t \in {"s2"} :
        \/ \E id \in Ids : remove_acquire(t, id)
        \/ remove_raise(t)
        \/ remove_1(t)
        \/ remove_2(t)
    \/ \E i \in 1..MaxTasks : task_ok(i)

DuplicateSpec == StoreInit /\ [][DuplicateNext]_vars

\* One thread registers callbacks, obtains Writers and writes, never waiting
\* on the handles; the pool runs the work items in submission order.
OrderedPoolNext ==
    \/ \E t \in {"s1"} :
        \/ \E k \in Keys, f \in Fns : add_1(t, k, f)
        \/ add_2(t)
        \/ \E k \in Keys : writer_call(t, k)
        \/ writer_hit(t)
        \/ writer_miss(t)
        \/ writer_new(t)
        \/ \E w \in 1..Len(wobjs), v \in WVals : write_call(t, w, v)
        \/ write_snapshot(t)
        \/ write_submit(t)
        \/ write_hook(t)
        \/ write_return(t)
    \/ \E i \in 1..MaxTasks :
        \/ SerialPool(i) /\ task_ok(i)
        \/ SerialPool(i) /\ task_raise(i)

OrderedPoolSpec == StoreInit /\ [][OrderedPoolNext]_vars

(***************************************************************************)
(* Properties of the EvictingQueue                                         *)
(***************************************************************************)
NoGetReturned == \A t \in QThreads : got[t] = <<>>

\* C1: in a queue of capacity c >= 1 on which no get has returned a value, the
\* buffer holds exactly the last c values put (all of them while fewer than c
\* were put), in arrival order: a put on a full queue drops the head and
\* appends at the tail.
C1_LastCValues ==
    (maxlen >= 1 /\ NoGetReturned) => q = LastN(putHist, maxlen)

\* c + 1 puts on a queue of capacity c = 2: the oldest value is gone.
C1_Witness ==
    /\ maxlen = 2
    /\ NoGetReturned
    /\ putHist = <<1, 2, 3>>
    /\ q = <<2, 3>>

\* C2: the buffer of a queue constructed with size = c never holds more than c
\* elements, whatever the threads do.
C2_LenWithinCapacity ==
    maxlen # NoneSize => (0 <= Len(q) /\ Len(q) <= maxlen)

\* A full queue of capacity 2 after an eviction, with a getter mid-call.
C2_Witness ==
    /\ maxlen = 2
    /\ Len(q) = 2
    /\ Len(putHist) = 3
    /\ \E t \in QThreads : qpc[t] = "get"

\* C3: the buffer is always the tail end of the sequence of values put (get
\* and eviction remove at the head only, nothing is reordered), every value a
\* get returned is older than every value still buffered, and the values one
\* thread's gets returned are a subsequence of the values put, in put order.
C3_Fifo ==
    /\ q = LastN(putHist, Len(q))
    /\ \A t \in QThreads :
        /\ IsSubseq(got[t], putHist)
        /\ \A i \in 1..Len(got[t]) : \A j \in 1..Len(q) : got[t][i] < q[j]

\* A consumer that received the two survivors of an eviction, in order.
C3_Witness ==
    /\ maxlen = 2
    /\ putHist = <<1, 2, 3>>
    /\ \E t \in QThreads : got[t] = <<2, 3>>
\* The positions of a thread inside get.
GetPcs == {"get", "get_wait", "get_re", "get_to"}

\* The value n, the latest put, has been pushed out by later puts.
Evicted(n) == maxlen # NoneSize /\ Len(putHist) >= n + maxlen

\* C4: a get() with no timeout does not complete while the buffer is empty and
\* the queue is not stopped; and when the only consumer is blocked in get()
\* and a put(x) has made the buffer <<x>>, that get eventually returns x
\* (unless later puts evict x first), leaving the buffer empty if no other put
\* came in between.
C4_BlockedGetReturnsPut ==
    /\ [][\A t \in QThreads :
            (qtimeout[t] = "none" /\ qpc[t] \in GetPcs /\ empty /\ ~stopped)
                => qpc'[t] \in GetPcs]_vars
    /\ \A n \in Values :
        (qpc["t1"] = "get_wait" /\ q = <<n>> /\ Len(putHist) = n)
            ~> \/ /\ qres["t1"] = "value"
                  /\ Last(got["t1"]) = n
                  /\ Len(putHist) = n => q = <<>>
               \/ Evicted(n)

\* The consumer is blocked and the first put has just landed.
C4_Witness ==
    /\ qpc["t1"] = "get_wait"
    /\ q = <<1>>
    /\ putHist = <<1>>
    /\ got["t1"] = <<>>

\* C5: every caller that is blocked in get when the queue is stopped ends by
\* raising QueueStopped, and from the moment the queue is stopped no call that
\* is inside get returns a value or times out.
C5_StopWakesAllGetters ==
    /\ \A t \in QThreads :
        (stopped /\ qpc[t] = "get_wait")
            ~> (qpc[t] = "idle" /\ qres[t] = "QueueStopped")
    /\ [][\A t \in QThreads :
            (stopped /\ qpc[t] \in GetPcs)
                => (got'[t] = got[t] /\ qres'[t] \in {"running", "QueueStopped"})]_vars

\* stop() has run while two callers were blocked in get on an empty buffer.
C5_Witness ==
    /\ stopped
    /\ q = <<>>
    /\ qpc["t1"] = "get_wait"
    /\ qpc["t2"] = "get_wait"

\* Thread t's get decides in this step: it holds the lock and leaves get.
GetDecides(t) == InGetLocked(t) /\ qpc'[t] = "idle"

\* C11: once the queue is stopped nobody is waiting in get, a get that holds
\* the lock (newly called or woken, with any timeout) can only raise
\* QueueStopped, leaving the buffer as it is, empty or not, and every get that
\* is under way ends by raising QueueStopped.
C11_StopBeatsDelivery ==
    /\ [](stopped => cv_waiters = {})
    /\ [][\A t \in QThreads :
            (stopped /\ InGetLocked(t) /\ qpc'[t] # qpc[t])
                => /\ qpc'[t] = "idle"
                   /\ qres'[t] = "QueueStopped"
                   /\ q' = q
                   /\ got' = got]_vars
    /\ \A t \in QThreads :
        (stopped /\ qpc[t] \in GetPcs)
            ~> (qpc[t] = "idle" /\ qres[t] = "QueueStopped")

\* A get with timeout 0 was called on a stopped queue that holds an element:
\* it raised QueueStopped and the element is still there.
C11_Witness ==
    /\ stopped
    /\ q = <<1>>
    /\ putHist = <<1>>
    /\ qpc["t1"] = "idle"
    /\ qres["t1"] = "QueueStopped"
    /\ got["t1"] = <<>>
    /\ got["t2"] = <<>>

\* C12, as stated: a get that decides on a non-empty buffer pops and returns
\* the head element, stopped or not.
C12_NonEmptyAlwaysDelivered ==
    [][\A t \in QThreads :
        (GetDecides(t) /\ ~empty)
            => /\ qres'[t] = "value"
               /\ q' = Tail(q)
               /\ got'[t] = Append(got[t], Head(q))]_vars

\* C12, amended: a get that decides on a stopped queue raises QueueStopped
\* and pops nothing, whether the buffer is drained or not; it pops and returns
\* the head element exactly when it decides on a non-empty buffer before the
\* stop flag is set.
C12_DeliveredOnlyBeforeStop ==
    [][\A t \in QThreads :
        GetDecides(t) =>
            /\ (qres'[t] = "value") <=> (~empty /\ ~stopped)
            /\ (qres'[t] = "QueueStopped") <=> stopped
            /\ qres'[t] = "value"
                => (q' = Tail(q) /\ got'[t] = Append(got[t], Head(q)))
            /\ qres'[t] # "value" => (q' = q /\ got'[t] = got[t])]_vars

\* A get was blocked on the empty queue, a put landed, then stop: the woken
\* get holds the lock and is about to decide on a stopped queue whose buffer
\* is not drained.
C12_Witness ==
    /\ stopped
    /\ q = <<1>>
    /\ qpc["t1"] = "get_re"
    /\ cv_owner = "t1"

\* C13: a get raises QueueTimeout only if it was given a timeout, has waited,
\* and finds the buffer empty and the queue not stopped when it decides, and
\* then buffer, stop flag and histories are as before; a get(timeout=0)
\* that takes the lock on a non-empty queue that is not stopped returns the
\* head element.
C13_TimeoutOnlyWhenEmpty ==
    /\ [][\A t \in QThreads :
            (GetDecides(t) /\ qres'[t] = "QueueTimeout")
                => /\ qtimeout[t] \in {"zero", "pos"}
                   /\ qpc[t] \in {"get_re", "get_to"}
                   /\ empty
                   /\ ~stopped
                   /\ q' = q
                   /\ stop_event' = stop_event
                   /\ got' = got]_vars
    /\ [][\A t \in QThreads :
            (/\ InGetLocked(t)
             /\ qpc[t] = "get"
             /\ qtimeout[t] = "zero"
             /\ ~empty
             /\ ~stopped
             /\ qpc'[t] # qpc[t])
                => /\ qpc'[t] = "idle"
                   /\ qres'[t] = "value"
                   /\ q' = Tail(q)
                   /\ got'[t] = Append(got[t], Head(q))]_vars

\* A get with a timeout waited on the empty queue, its wait timed out, and it
\* holds the lock again with the queue still empty and not stopped: it is
\* about to raise QueueTimeout. Another thread's get timed out before.
C13_Witness ==
    /\ qpc["t1"] = "get_to"
    /\ cv_owner = "t1"
    /\ q = <<>>
    /\ ~stopped
    /\ putHist = <<1>>
    /\ qres["t2"] = "QueueTimeout"

\* C14: a caller waiting inside get does not hold the lock, and whoever holds
\* it gives it up, so the lock always becomes free for a put; a put that has
\* the lock can always run, whatever the buffer, the stop flag and the
\* waiters are, and its one step appends the value, notifies every waiter,
\* leaves the stop flag alone and returns None; every put that has started
\* ends.
C14_PutNeverBlocks ==
    /\ [](\A t \in QThreads : qpc[t] = "get_wait" => cv_owner # t)
    /\ [](\A t \in QThreads : qpc[t] = "put" => ENABLED put_body(t))
    /\ [][\A t \in QThreads :
            (qpc[t] = "put" /\ qpc'[t] # "put")
                => /\ qpc'[t] = "idle"
                   /\ qres'[t] = "None"
                   /\ putHist' = Append(putHist, qarg[t])
                   /\ cv_waiters' = {}
                   /\ stop_event' = stop_event]_vars
    /\ (cv_owner # Free) ~> (cv_owner = Free)
    /\ \A t \in QThreads : (qpc[t] = "put") ~> (qpc[t] = "idle")

\* Two callers are blocked in get; a second put has completed on the full
\* queue of capacity 1 before either of them got the lock back.
C14_Witness ==
    /\ maxlen = 1
    /\ putHist = <<1, 2>>
    /\ q = <<2>>
    /\ qpc["t1"] = "get_wait"
    /\ qpc["t2"] = "get_wait"
    /\ qpc["t3"] = "idle"
    /\ qres["t3"] = "None"
    /\ cv_waiters = {}

\* Thread t's flush or iteration has ended.
Exhausted(t) == itr[t].pc = "done"

\* Since thread t's flush or iteration started no put has landed.
NoPutSince(t) == Len(putHist) = itr[t].p0

\* Since thread t's flush or iteration started nothing another thread did has
\* taken effect: no put landed, no other get returned a value, and the stop
\* flag is what it was.
Undisturbed(t) ==
    /\ NoPutSince(t)
    /\ GotCount(QThreads \ {t}) = itr[t].g0
    /\ stopped = itr[t].s0

\* C15, as stated: a flush during which nothing else took effect has returned
\* the values that were in the queue when it was called, oldest first, and
\* the queue is empty.
C15_FlushReturnsAll ==
    \A t \in QThreads :
        (itr[t].mode = "flush" /\ Exhausted(t) /\ Undisturbed(t))
            => (itr[t].out = itr[t].q0 /\ q = <<>>)

\* C16, as stated: an iter_timeout(0) that started on a queue that was not
\* stopped, and during which no put landed, has yielded the values that were
\* in the queue, oldest first, and the queue is empty.
C16_IterTimeoutZeroDrains ==
    \A t \in QThreads :
        (/\ itr[t].mode = "iter_timeout"
         /\ itr[t].tmo = "zero"
         /\ Exhausted(t)
         /\ ~itr[t].s0
         /\ NoPutSince(t))
            => (itr[t].out = itr[t].q0 /\ q = <<>>)

\* C16, amended: what a flush and an exhausted iter_timeout(0) return, and
\* what they leave, is one and the same function of the state they start
\* in, provided nothing another thread does takes effect meanwhile: on a
\* queue that is not stopped, the buffered values, oldest first, leaving the
\* queue empty; on a stopped queue, nothing, leaving the buffer as it is.
C16_FlushIsIterTimeoutZero ==
    \A t \in QThreads :
        (/\ itr[t].mode \in {"flush", "iter_timeout"}
         /\ itr[t].tmo = "zero"
         /\ Exhausted(t)
         /\ Undisturbed(t))
            => /\ itr[t].out = (IF itr[t].s0 THEN <<>> ELSE itr[t].q0)
               /\ q = (IF itr[t].s0 THEN itr[t].q0 ELSE <<>>)

\* test_evicting_queue_iter_timeout: iter_timeout(0) on a queue holding two
\* values has yielded both and ended, and the queue is empty.
C16_Witness ==
    /\ itr["t1"].mode = "iter_timeout"
    /\ itr["t1"].tmo = "zero"
    /\ Exhausted("t1")
    /\ Undisturbed("t1")
    /\ itr["t1"].q0 = <<1, 2>>
    /\ itr["t1"].out = <<1, 2>>
    /\ q = <<>>
    /\ ~stopped

\* Thread t's iteration has received the outcome r of its latest get and has
\* not acted on it yet.
GetCameBack(t, r) == itr[t].pc = "wait" /\ qpc[t] = "idle" /\ qres[t] = r

\* C17: an iteration by __iter__ makes untimed gets only and has yielded the
\* values these returned, in order; the only way a get of it fails is
\* QueueStopped, on a stopped queue, and the iteration then ends without
\* yielding, whatever is buffered; once ended it yields nothing more and gets
\* nothing more; started on a stopped queue it yields nothing; and an
\* iteration whose get is under way, blocked or not, when the queue is
\* stopped ends.
C17_IterEndsOnStop ==
    /\ [](\A t \in QThreads : itr[t].mode = "iter" =>
            /\ qpc[t] \in GetPcs => qtimeout[t] = "none"
            /\ IF GetCameBack(t, "value")
               THEN got[t] = Append(itr[t].out, Last(got[t]))
               ELSE got[t] = itr[t].out
            /\ qres[t] # "QueueTimeout"
            /\ GetCameBack(t, "QueueStopped") => stopped
            /\ itr[t].s0 => itr[t].out = <<>>)
    /\ [][\A t \in QThreads : itr[t].mode = "iter" =>
            /\ (GetCameBack(t, "QueueStopped") /\ itr'[t] # itr[t])
                    => (Exhausted(t)' /\ itr'[t].out = itr[t].out)
            /\ Exhausted(t) => (itr'[t] = itr[t] /\ got'[t] = got[t])]_vars
    /\ \A t \in QThreads :
        (itr[t].mode = "iter" /\ qpc[t] \in GetPcs /\ stopped) ~> Exhausted(t)

\* test_evicting_queue_iter with a third value: the iteration yielded 1 and 2,
\* the queue was stopped, and the iteration has ended with 3 still buffered.
C17_Witness ==
    /\ itr["t1"].mode = "iter"
    /\ Exhausted("t1")
    /\ itr["t1"].out = <<1, 2>>
    /\ q = <<3>>
    /\ stopped

\* C18: an iteration by iter_timeout(t) makes gets with timeout t; what it
\* has yielded is what its gets popped, one element per value, in the order
\* the values were put; while it is not advanced it pops nothing, so what it
\* leaves stays for other consumers; a get of it that raises QueueTimeout or
\* QueueStopped ends it, without a further value, and once ended it yields
\* and pops nothing more.
C18_IterTimeoutLazy ==
    /\ [](\A t \in QThreads : itr[t].mode = "iter_timeout" =>
            /\ qpc[t] \in GetPcs => qtimeout[t] = itr[t].tmo
            /\ IF GetCameBack(t, "value")
               THEN got[t] = Append(itr[t].out, Last(got[t]))
               ELSE got[t] = itr[t].out
            /\ IsSubseq(itr[t].out, putHist)
            /\ \A m, n \in 1..Len(itr[t].out) :
                    m < n => itr[t].out[m] < itr[t].out[n])
    /\ [][\A t \in QThreads : itr[t].mode = "iter_timeout" =>
            /\ (itr[t].pc = "call" /\ itr'[t].pc = "call")
                    => (got'[t] = got[t] /\ itr'[t] = itr[t])
            /\ ((GetCameBack(t, "QueueStopped") \/ GetCameBack(t, "QueueTimeout"))
                    /\ itr'[t] # itr[t])
                    => (Exhausted(t)' /\ itr'[t].out = itr[t].out)
            /\ Exhausted(t) => (itr'[t] = itr[t] /\ got'[t] = got[t])]_vars

\* test_evicting_queue_blocking_iter_timeout: iter_timeout(0) was advanced
\* once and yielded 1; the 2 it left was returned to another consumer's get.
C18_Witness ==
    /\ itr["t1"].mode = "iter_timeout"
    /\ itr["t1"].tmo = "zero"
    /\ itr["t1"].pc = "call"
    /\ itr["t1"].out = <<1>>
    /\ got["t2"] = <<2>>
    /\ q = <<>>

\* Thread t makes a call of the given kind that only looks at the queue.
Looks(t, op) == qobs'[t] # qobs[t] /\ qobs'[t].op = op

\* Nothing has been put or got since thread t last looked at the queue.
Fresh(t) == qobs[t].p = Len(putHist) /\ qobs[t].g = GotCount(QThreads)

\* C19: on a non-empty queue peek and peekleft raise nothing and remove
\* nothing; what peek returned is the value put last before the call; and
\* when a get returns a value with nothing put or got since a peekleft, it
\* returns what that peekleft returned.
C19_PeekNewestPeekleftNext ==
    /\ [][\A t \in QThreads :
            ((Looks(t, "peek") \/ Looks(t, "peekleft")) /\ q # <<>>)
                => /\ qobs'[t].exc = "none"
                   /\ q' = q
                   /\ got' = got]_vars
    /\ [](\A t \in QThreads :
            (qobs[t].op = "peek" /\ qobs[t].exc = "none")
                => /\ qobs[t].p >= 1
                   /\ qobs[t].res = putHist[qobs[t].p])
    /\ [][\A t, u \in QThreads :
            (/\ qobs[t].op = "peekleft"
             /\ qobs[t].exc = "none"
             /\ Fresh(t)
             /\ got'[u] # got[u])
                => Last(got'[u]) = qobs[t].res]_vars

\* test_evicting_queue_fifo: capacity 2, three puts; peekleft returned 2 and
\* the get that followed returned 2.
C19_Witness ==
    /\ maxlen = 2
    /\ putHist = <<1, 2, 3>>
    /\ qobs["t1"].op = "peekleft"
    /\ qobs["t1"].res = 2
    /\ qobs["t1"].p = 3
    /\ got["t1"] = <<2>>
    /\ q = <<3>>

\* C20: peek and peekleft raise IndexError exactly when the buffer is empty,
\* as it is on a queue of any size on which nothing was put; len returns the
\* buffer's length and empty whether it is 0, so that an empty and a len with
\* nothing put or got between them agree; and none of the four calls changes
\* the buffer, the stop flag or anything else of the queue.
C20_LookingChangesNothing ==
    /\ [][\A t \in QThreads :
            /\ qobs'[t] # qobs[t] => QueueState' = QueueState
            /\ (Looks(t, "peek") \/ Looks(t, "peekleft"))
                    => (qobs'[t].exc = "IndexError" <=> q = <<>>)
            /\ Looks(t, "len") => (qobs'[t].res = Len(q) /\ qobs'[t].exc = "none")
            /\ Looks(t, "empty")
                    => (qobs'[t].flag = (Len(q) = 0) /\ qobs'[t].exc = "none")]_vars
    /\ [](putHist = <<>> => q = <<>>)
    /\ [](\A t, u \in QThreads :
            (/\ qobs[t].op = "empty"
             /\ qobs[u].op = "len"
             /\ qobs[t].p = qobs[u].p
             /\ qobs[t].g = qobs[u].g)
                => (qobs[t].flag <=> qobs[u].res = 0))

\* test_evicting_queue_basic: on a new queue of size 0 peekleft raised
\* IndexError and len returned 0.
C20_Witness ==
    /\ maxlen = 0
    /\ putHist = <<>>
    /\ qobs["t1"].op = "peekleft"
    /\ qobs["t1"].exc = "IndexError"
    /\ qobs["t2"].op = "len"
    /\ qobs["t2"].res = 0

\* Thread t's stop() call returns in this step.
StopReturns(t) == qpc[t] = "stop" /\ qpc'[t] = "idle"

\* C21: stopped() is false on a new queue; a stop() call leaves it true, and
\* no step of any operation takes it back to false; a stop() on a queue that
\* is already stopped changes nothing of the queue (flag, buffer, waiters,
\* histories, the other threads' calls), and no stop() changes the buffer.
C21_StoppedMonotonic ==
    /\ ~stopped
    /\ [][stopped => stopped']_vars
    /\ [][\A t \in QThreads :
            StopReturns(t) =>
                /\ stopped'
                /\ q' = q
                /\ maxlen' = maxlen
                /\ putHist' = putHist
                /\ got' = got
                /\ stopped =>
                    /\ stop_event' = stop_event
                    /\ cv_waiters' = cv_waiters
                    /\ \A u \in QThreads \ {t} :
                        qpc'[u] = qpc[u] /\ qres'[u] = qres[u]]_vars

\* The queue was stopped with a value buffered, a put and a get have gone
\* through since, and a second stop() call is about to return.
C21_Witness ==
    /\ stopped
    /\ qpc["t1"] = "stop"
    /\ cv_owner = "t1"
    /\ Len(putHist) = 2
    /\ Len(q) = 2
    /\ qres["t2"] = "QueueStopped"

\* Thread t's put() call returns in this step.
PutReturns(t) == qpc[t] = "put" /\ qpc'[t] = "idle"

\* C27: a put on a stopped queue returns None like any other put: the value
\* goes to the tail, the head leaving when the buffer was full (and the value
\* itself when the capacity is 0), the flag stays set; and on a stopped queue
\* len returns the buffer's length, peek its tail, which is the value put
\* last, and peekleft its head, none of them raising on a non-empty buffer.
C27_PutAndLookAfterStop ==
    /\ [][\A t \in QThreads :
            (PutReturns(t) /\ stopped) =>
                /\ qres'[t] = "None"
                /\ stopped'
                /\ putHist' = Append(putHist, qarg[t])
                /\ q' = IF maxlen = 0 THEN <<>>
                        ELSE IF maxlen # NoneSize /\ Len(q) = maxlen
                             THEN Append(Tail(q), qarg[t])
                             ELSE Append(q, qarg[t])]_vars
    /\ [](\A t \in QThreads :
            (qobs[t].s /\ qobs[t].exc = "none") =>
                /\ qobs[t].op = "peek" => qobs[t].res = putHist[qobs[t].p]
                /\ qobs[t].op = "len" =>
                        /\ qobs[t].res <= qobs[t].p - qobs[t].g
                        /\ maxlen # NoneSize => qobs[t].res <= maxlen
                        /\ (maxlen = NoneSize \/ qobs[t].p <= maxlen)
                                => qobs[t].res = qobs[t].p - qobs[t].g)
    /\ [][\A t \in QThreads :
            (stopped /\ q # <<>>) =>
                /\ Looks(t, "peek") =>
                        qobs'[t].res = Last(q) /\ qobs'[t].exc = "none"
                /\ Looks(t, "peekleft") =>
                        qobs'[t].res = Head(q) /\ qobs'[t].exc = "none"
                /\ Looks(t, "len") => qobs'[t].res = Len(q)]_vars

\* len returned 1 on the stopped queue when one value had been put; two more
\* puts have landed since, the second evicting the first value from the
\* buffer of capacity 2, and peek has returned the value put last.
C27_Witness ==
    /\ stopped
    /\ maxlen = 2
    /\ qobs["t2"].op = "len" /\ qobs["t2"].s /\ qobs["t2"].p = 1
    /\ qobs["t2"].res = 1
    /\ qobs["t1"].op = "peek" /\ qobs["t1"].s /\ qobs["t1"].p = 3
    /\ qobs["t1"].res = 3
    /\ q = <<2, 3>>

\* Thread t makes the named call, returns from wait, or returns from stop /
\* set in this step.
Calls(t, op) == tpc[t] = "idle" /\ tloc'[t] # tloc[t] /\ tloc'[t].op = op
WaitReturns28(t) == tloc[t].op = "wait" /\ tloc[t].res = "running" /\ tloc'[t].res # "running"
SetReturns(t) == tpc[t] = "set_notify" /\ tpc'[t] = "idle"

\* C28: the stop event, once set by stop() or by its other holder, stays set;
\* stop() returns with it set, and a stop() that found it set changes nothing
\* and has nobody to wake; stopped() returns the flag and running() its
\* negation; a wait that finds the event set returns True at once, a thread
\* blocked in wait is woken by the set and then returns True, True is only
\* returned with the event set, False only by a wait with an interval that
\* found the event clear and gave up unwoken, and once the event is set no
\* thread stays in wait.
C28_StopEventWaitStop ==
    /\ [][thread_stop_event => thread_stop_event']_vars
    /\ [][\A t \in TThreads :
            SetReturns(t) =>
                /\ thread_stop_event /\ thread_stop_event'
                /\ \A u \in TThreads : tpc[u] = "wait" => tpc'[u] = "wait_woken"
                /\ tloc[t].set0 =>
                    /\ ev_waiters = {}
                    /\ \A u \in TThreads \ {t} : tpc'[u] = tpc[u]]_vars
    /\ [][\A t \in TThreads :
            /\ Calls(t, "stopped") => tloc'[t].res = Bool(thread_stop_event)
            /\ Calls(t, "running") => tloc'[t].res = Bool(~thread_stop_event)
            /\ (Calls(t, "stopped") \/ Calls(t, "running")) =>
                    thread_stop_event' = thread_stop_event /\ tpc' = tpc]_vars
    /\ [](\A t, u \in TThreads :
            (/\ tloc[t].op = "running" /\ tloc[u].op = "stopped"
             /\ tloc[t].set0 = tloc[u].set0)
                => tloc[t].res # tloc[u].res)
    /\ [][\A t \in TThreads :
            /\ (Calls(t, "wait") /\ thread_stop_event) =>
                    tloc'[t].res = "True" /\ tpc'[t] = "idle"
            /\ WaitReturns28(t) =>
                /\ tloc'[t].res = "True" <=> tpc[t] = "wait_woken"
                /\ tloc'[t].res = "True" => thread_stop_event
                /\ tloc'[t].res = "False" =>
                        tloc[t].interval # "none" /\ ~tloc[t].set0]_vars
    /\ [](\A t \in TThreads :
            (tloc[t].op = "wait" /\ tloc[t].res = "True") => thread_stop_event)
    /\ \A t \in TThreads :
            (tpc[t] \in {"wait", "wait_woken", "wait_timedout"}
                /\ thread_stop_event) ~> tpc[t] = "idle"

\* The event was clear when both waits began: the untimed one was woken by the
\* set and returned True, the timed one had given up and returned False; the
\* event is set and a stop() that found it set has returned.
C28_Witness ==
    /\ thread_stop_event
    /\ tloc["w1"] = [op |-> "wait", interval |-> "none", res |-> "True",
                     set0 |-> FALSE]
    /\ tloc["w2"] = [op |-> "wait", interval |-> "pos", res |-> "False",
                     set0 |-> FALSE]
    /\ tloc["c1"] = [op |-> "stop", interval |-> "none", res |-> "None",
                     set0 |-> TRUE]
    /\ tloc["x1"].op = "set"

\* The sequence s is a run of consecutive puts (the n-th put puts n).
ContiguousRun(s) == \A n \in 1..(Len(s) - 1) : s[n + 1] = s[n] + 1

\* Since thread t's flush started only puts have taken effect: the queue was
\* not stopped and is not, and no other thread's get has returned a value.
OnlyPutsSince(t) ==
    /\ ~itr[t].s0
    /\ ~stopped
    /\ GotCount(QThreads \ {t}) = itr[t].g0

\* C31, as stated: what a flush returns while only puts run next to it is the
\* buffer as it was at one instant between call and return; the buffer always
\* being a run of consecutive puts no longer than the capacity, so is the
\* result, also when puts evict elements during the flush.
C31_FlushIsOneInstant ==
    \A t \in QThreads :
        (itr[t].mode = "flush" /\ Exhausted(t) /\ OnlyPutsSince(t))
            => /\ ContiguousRun(itr[t].out)
               /\ maxlen # NoneSize => Len(itr[t].out) <= maxlen

\* Thread t is inside a `with self._cv:` block, not waiting.
InCS(t) == qpc[t] \in {"put", "stop", "get", "get_re", "get_to"}

\* C32: the buffer and the stop flag change only in a step of the one thread
\* that holds the condition's lock, the buffer in put and get, the flag in
\* stop; a thread is inside a `with self._cv:` block exactly while it holds
\* the lock, so at most one is; a caller waiting in get does not hold it, has
\* it back only once it was free, to evaluate the predicate, and gives it up
\* in its next step, which pops, raises or waits again.
C32_MutationsUnderTheLock ==
    /\ [](\A t \in QThreads : InCS(t) <=> cv_owner = t)
    /\ [](\A t, u \in QThreads : (InCS(t) /\ InCS(u)) => t = u)
    /\ [](\A t \in QThreads : qpc[t] = "get_wait" => cv_owner # t)
    /\ [][(q' # q \/ stop_event' # stop_event \/ putHist' # putHist) =>
            \E t \in QThreads :
                /\ cv_owner = t /\ InCS(t)
                /\ cv_owner' = Free /\ qpc'[t] = "idle"
                /\ \A u \in QThreads \ {t} : qpc'[u] = qpc[u]
                /\ q' # q => qpc[t] \in {"put", "get", "get_re", "get_to"}
                /\ putHist' # putHist => qpc[t] = "put"
                /\ stop_event' # stop_event => qpc[t] = "stop"]_vars
    /\ [][\A t \in QThreads :
            /\ (qpc[t] = "get_wait" /\ qpc'[t] # "get_wait") =>
                /\ cv_owner = Free /\ cv_owner' = t
                /\ qpc'[t] \in {"get_re", "get_to"}
                /\ q' = q /\ stop_event' = stop_event
            /\ (InGetLocked(t) /\ qpc'[t] # qpc[t]) =>
                /\ cv_owner' = Free
                /\ qpc'[t] \in {"idle", "get_wait"}]_vars

\* A put has landed and woken two callers blocked in get: one of them has the
\* lock back and is about to pop, the other is still without it, and a third
\* thread cannot enter stop or put meanwhile.
C32_Witness ==
    /\ qpc["t1"] = "get_re"
    /\ cv_owner = "t1"
    /\ qpc["t2"] = "get_wait"
    /\ "t2" \notin cv_waiters
    /\ qpc["t3"] = "idle"
    /\ q = <<1>>
    /\ ~stopped

\* The values get has returned to any thread, flush and iteration included.
AllGot == UNION {Range(got[t]) : t \in QThreads}

\* C33: with a thread flushing and iterating next to one calling get, no value
\* is returned twice, to the same or to another consumer call; every value
\* returned was put, and is no longer in the buffer; no more values are
\* returned than were put; what a flush or iteration has yielded are values
\* its thread's gets returned.
C33_EachValueReturnedOnce ==
    /\ \A t, u \in QThreads :
        \A i \in 1..Len(got[t]) : \A j \in 1..Len(got[u]) :
            got[t][i] = got[u][j] => (t = u /\ i = j)
    /\ AllGot \subseteq Range(putHist)
    /\ AllGot \cap Range(q) = {}
    /\ GotCount(QThreads) <= Len(putHist)
    /\ GotCount(QThreads) + Len(q) <= Len(putHist)
    /\ \A t \in QThreads :
        /\ Len(itr[t].out) <= Len(got[t])
        /\ \A n \in 1..Len(itr[t].out) :
              itr[t].out[n] \in Range(got[t])

\* Three values were put on a queue without bound; a flush has returned the
\* first and the third, a get of another thread the second.
C33_Witness ==
    /\ maxlen = NoneSize
    /\ putHist = <<1, 2, 3>>
    /\ itr["t1"].mode = "flush"
    /\ Exhausted("t1")
    /\ itr["t1"].out = <<1, 3>>
    /\ got["t2"] = <<2>>
    /\ q = <<>>

\* The get calls made so far, returned or not, and the smaller of two numbers.
GetCalls ==
    GotCount(QThreads) + Cardinality({t \in QThreads : qpc[t] \in GetPcs})
Min(a, b) == IF a <= b THEN a ELSE b

\* Thread t is blocked in get: it waits, or was notified and has not got the
\* lock back yet.
Blocked(t) == qpc[t] = "get_wait"

\* C34: on a queue without bound that nobody stops, with N get() calls made
\* and M puts landed, never more than min(N, M) calls have returned, each with
\* a value, and min(N, M) eventually have; a call only returns by popping, so
\* the others stay inside get; and a non-empty buffer with a caller blocked in
\* get does not last: the buffer is emptied or that caller returns.
C34_NoLostWakeup ==
    /\ [](GotCount(QThreads) <= Min(GetCalls, Len(putHist)))
    /\ [][\A t \in QThreads :
            (qpc[t] \in GetPcs /\ qpc'[t] \notin GetPcs)
                => /\ ~empty
                   /\ qres'[t] = "value"
                   /\ got'[t] = Append(got[t], Head(q))]_vars
    /\ \A a \in 0..(MaxPuts + 2) : \A b \in 0..MaxPuts :
        (GetCalls = a /\ Len(putHist) = b)
            ~> (GotCount(QThreads) >= Min(a, b))
    /\ \A t \in QThreads :
        (Blocked(t) /\ ~empty /\ ~stopped) ~> (empty \/ ~Blocked(t))

\* Two callers were blocked in get when the only put so far landed: one of
\* them has returned its value, the other is blocked again on the empty
\* buffer.
C34_Witness ==
    /\ putHist = <<1>>
    /\ got["t1"] = <<1>>
    /\ qpc["t1"] = "idle"
    /\ qpc["t2"] = "get_wait"
    /\ "t2" \in cv_waiters
    /\ q = <<>>
    /\ cv_owner = Free
    /\ qpc["t3"] = "idle"

(***************************************************************************)
(* Store properties                                                        *)
(***************************************************************************)
\* The work items submitted for the write of value v.
TasksOf(v) == {i \in 1..Len(tasks) : tasks[i].val = v}

\* The work items of callback c that have run to a normal return.
RanOk(c) == {i \in 1..Len(tasks) : tasks[i].cb = c /\ tasks[i].st = "ok"}

\* Thread t takes its snapshot / submits a work item / returns from write in
\* this step.
SnapshotStep(t) == spc[t] = "write_snapshot" /\ spc'[t] = "write_loop"
SubmitStep(t) == spc[t] = "write_loop" /\ spc'[t] = "write_hook"
ReturnStep(t) == spc[t] = "write_loop" /\ spc'[t] = "idle"

\* C6: a write of v under key k takes the callbacks registered under k at its
\* snapshot, returns one handle per callback of the snapshot, in order, each
\* for a work item calling that callback with v, and these are all the work
\* items of the write (none when the snapshot is empty); no callback gets two
\* work items for one write, and a callback that ran was called once per work
\* item with that item's value.
C6_OneTaskPerCallback ==
    /\ [][\A t \in SThreads :
            /\ SnapshotStep(t) => sloc'[t].snap = callbacks[sloc[t].key]
            /\ ReturnStep(t) =>
                /\ Len(sloc[t].fs) = Len(sloc[t].snap)
                /\ Range(sloc[t].fs) = TasksOf(sloc[t].val)
                /\ \A m, n \in 1..Len(sloc[t].fs) :
                        sloc[t].fs[m] = sloc[t].fs[n] => m = n
                /\ \A n \in 1..Len(sloc[t].fs) :
                        /\ tasks[sloc[t].fs[n]].cb = sloc[t].snap[n].id
                        /\ tasks[sloc[t].fs[n]].f = sloc[t].snap[n].f
                        /\ tasks[sloc[t].fs[n]].val = sloc[t].val
                        /\ tasks[sloc[t].fs[n]].key = sloc[t].key]_vars
    /\ [](\A i, j \in 1..Len(tasks) :
            (tasks[i].val = tasks[j].val /\ tasks[i].cb = tasks[j].cb) => i = j)
    /\ [](\A c \in Ids :
            /\ Len(seen[c]) = Cardinality(RanOk(c))
            /\ Range(seen[c]) = {tasks[i].val : i \in RanOk(c)})

\* The second write found two callbacks under its key, has submitted a work
\* item for each and is about to return the two handles.
C6_Witness ==
    /\ spc["s1"] = "write_loop"
    /\ sloc["s1"].val = 2
    /\ Len(sloc["s1"].snap) = 2
    /\ Len(sloc["s1"].fs) = 2

\* Some thread is inside remove_callback(i), past the reverse index.
Removing(i) == \E t \in SThreads : spc[t] = "remove_2" /\ sloc[t].id = i

\* C7: a write that is called after remove_callback(id) returned takes a
\* snapshot without that id and submits no work item for it, while the
\* snapshot holds every issued id that is still registered under the write's
\* key; an issued id stays registered until it is removed, and a removed id is
\* in no registry.
C7_RemovedNotDispatched ==
    /\ [][\A t \in SThreads :
            /\ SnapshotStep(t) =>
                /\ Range(IdsOf(sloc'[t].snap)) \cap sloc[t].rm0 = {}
                /\ \A i \in issued :
                        callback_keys[i] = sloc[t].key
                            => i \in Range(IdsOf(sloc'[t].snap))
            /\ SubmitStep(t) => tasks'[Len(tasks')].cb \notin sloc[t].rm0]_vars
    /\ [](\A i \in issued :
            (rmCount[i] = 0 /\ ~Removing(i))
                => /\ callback_keys[i] # NoKey
                   /\ i \in Range(IdsOf(callbacks[callback_keys[i]])))
    /\ [](\A i \in removed :
            /\ callback_keys[i] = NoKey
            /\ \A k \in Keys : i \notin Range(IdsOf(callbacks[k])))

\* test_remove_callback with a second callback that stays: both ran for the
\* write of 1, the first was removed, and only the second ran for the write
\* of 2.
C7_Witness ==
    /\ rmCount[1] = 1
    /\ rmCount[2] = 0
    /\ seen[1] = <<1>>
    /\ seen[2] = <<1, 2>>
    /\ spc["s1"] = "idle"

\* The snapshot of the write thread t is in holds a callback that raises.
SnapshotRaises(t) ==
    /\ spc[t] \in {"write_loop", "write_hook"}
    /\ \E n \in 1..Len(sloc[t].snap) : sloc[t].snap[n].f = "raises"

\* C8: a callback raising changes nothing but its own work item: registry,
\* writers, the writing thread and every other work item stay as they are;
\* the write whose snapshot holds a raising callback returns, with one handle
\* per callback of the snapshot, and every well-behaved callback of that
\* snapshot receives the write's value.
C8_RaisingCallbackIsolated ==
    /\ [][\A i \in 1..Len(tasks) :
            (tasks[i].st = "pending" /\ tasks'[i].st = "exc") =>
                /\ callbacks' = callbacks
                /\ callback_keys' = callback_keys
                /\ writers' = writers
                /\ spc' = spc
                /\ sloc' = sloc
                /\ seen' = seen
                /\ \A j \in 1..Len(tasks) : j # i => tasks'[j] = tasks[j]]_vars
    /\ [][\A t \in SThreads :
            (SnapshotRaises(t) /\ ReturnStep(t))
                => /\ Len(sloc[t].fs) = Len(sloc[t].snap)
                   /\ \A n \in 1..Len(sloc[t].fs) :
                        tasks[sloc[t].fs[n]].cb = sloc[t].snap[n].id]_vars
    /\ \A t \in SThreads : SnapshotRaises(t) ~> spc[t] = "idle"
    /\ \A t \in SThreads, c \in Ids, v \in WVals :
        (/\ SnapshotRaises(t)
         /\ sloc[t].val = v
         /\ \E n \in 1..Len(sloc[t].snap) :
                sloc[t].snap[n].id = c /\ sloc[t].snap[n].f = "append")
            ~> v \in Range(seen[c])

\* The raising callback was registered and submitted first, it has raised and been logged, the well-behaved callback has run
\* with the same value, and the write has returned.
C8_Witness ==
    /\ spc["s1"] = "idle"
    /\ Len(tasks) = 2
    /\ tasks[1].st = "exc"
    /\ tasks[1].logged = 1
    /\ tasks[2].st = "ok"
    /\ tasks[2].val = tasks[1].val
    /\ tasks[2].key = tasks[1].key
    /\ seen[tasks[2].cb] = <<tasks[2].val>>

\* C9: a remove_callback(id) call succeeds when the id has been issued and no
\* removal of it has succeeded before, and raises KeyError, changing nothing,
\* in every other case (the id was removed before, or never issued); so no id
\* is removed more than once, by however many threads.
C9_RemoveOnce ==
    /\ [][\A t \in SThreads :
            (spc[t] = "remove_1" /\ spc'[t] # "remove_1") =>
                IF sloc[t].id \in issued /\ rmCount[sloc[t].id] = 0
                THEN spc'[t] = "remove_2"
                ELSE /\ spc'[t] = "idle"
                     /\ callbacks' = callbacks
                     /\ callback_keys' = callback_keys
                     /\ rmCount' = rmCount]_vars
    /\ [][\A t \in SThreads :
            (spc[t] = "remove_2" /\ spc'[t] # "remove_2") =>
                /\ spc'[t] = "idle"
                /\ rmCount[sloc[t].id] = 0
                /\ rmCount'[sloc[t].id] = 1]_vars
    /\ [](\A i \in Ids : rmCount[i] <= 1 /\ (rmCount[i] = 1 => i \in issued))

\* Id 1 has been removed once and thread s2 is inside a second
\* remove_callback call for it, while id 2 has not been generated.
C9_Witness ==
    /\ rmCount[1] = 1
    /\ nextId = 1
    /\ spc["s2"] = "remove_1"
    /\ sloc["s2"].id = 1

\* C10: with the writer calls made one after the other, every call for a key
\* returns the one Writer that the first call for that key created and put in
\* self.writers, which is never replaced and whose submit is bound to that
\* key; no Writer is returned for two keys.
C10_WriterCached ==
    /\ [](\A k \in Keys :
            /\ Cardinality(handed[k]) <= 1
            /\ \A w \in handed[k] : writers[k] = w /\ wobjs[w] = k)
    /\ [](\A k1, k2 \in Keys : k1 # k2 => handed[k1] \cap handed[k2] = {})
    /\ [][\A k \in Keys : writers[k] # NoWriter => writers'[k] = writers[k]]_vars
    /\ [][\A t \in SThreads :
            (spc[t] = "writer_try" /\ spc'[t] = "idle")
                => /\ writers[sloc[t].key] # NoWriter
                   /\ handed[sloc[t].key] = {writers[sloc[t].key]}
                   /\ handed' = handed
                   /\ wobjs' = wobjs]_vars

\* Each key has its Writer, and a further writer call for k1 is under way.
C10_Witness ==
    /\ handed["k1"] = {1}
    /\ handed["k2"] = {2}
    /\ spc["s1"] = "writer_try"
    /\ sloc["s1"].key = "k1"

\* The work item among thread t's handles that calls callback i.
HandleFor(t, i) ==
    {n \in 1..Len(sloc[t].fs) :
        /\ tasks[sloc[t].fs[n]].cb = i
        /\ tasks[sloc[t].fs[n]].val = sloc[t].val}

\* C22: a write to k that was called after add_callback(k, f) returned id i
\* takes a snapshot holding i with f, and returns a handle of a work item
\* calling i with the written value, unless a remove_callback(i) has got hold
\* of the registry by then; this holds of every Writer for k, whenever it was
\* obtained.
C22_RegisteredIsDispatched ==
    /\ [][\A t \in SThreads :
            /\ SnapshotStep(t) =>
                \A i \in sloc[t].iss0 :
                    callback_keys[i] = sloc[t].key =>
                        \E n \in 1..Len(sloc'[t].snap) :
                            /\ sloc'[t].snap[n].id = i
                            /\ sloc'[t].snap[n] \in Range(callbacks[sloc[t].key])
            /\ ReturnStep(t) =>
                \A i \in sloc[t].iss0 :
                    callback_keys[i] = sloc[t].key => HandleFor(t, i) # {}]_vars
    /\ [](\A i \in issued :
            (rmCount[i] = 0 /\ ~Removing(i)) => callback_keys[i] # NoKey)

\* The Writer for k1 was there for the first write, which found callback 1
\* only; callback 2 was registered under k1 afterwards and nothing was removed;
\* the second write, called after that registration returned, has submitted
\* work items for both.
C22_Witness ==
    /\ spc["s1"] = "write_loop"
    /\ sloc["s1"].key = "k1"
    /\ sloc["s1"].val = 2
    /\ sloc["s1"].iss0 = {1, 2}
    /\ rmCount = [i \in Ids |-> 0]
    /\ Len(tasks) = 3
    /\ tasks[1].val = 1 /\ tasks[1].cb = 1 /\ tasks[1].key = "k1"
    /\ tasks[2].val = 2 /\ tasks[2].cb = 1
    /\ tasks[3].val = 2 /\ tasks[3].cb = 2
    /\ Len(sloc["s1"].fs) = 2

\* Thread t is inside Writer.write.
InWrite(t) == spc[t] \in {"write_snapshot", "write_loop", "write_hook"}

\* Some step of thread t's current call can be taken.
CanStep(t) ==
    ENABLED (\/ write_snapshot(t) \/ write_submit(t) \/ write_hook(t)
             \/ write_return(t) \/ futures_wait_return(t)
             \/ writer_hit(t) \/ writer_miss(t) \/ writer_new(t)
             \/ add_2(t) \/ remove_raise(t) \/ remove_1(t) \/ remove_2(t))

\* A work item that thread t waits on is unfinished.
AwaitsCallback(t) ==
    /\ spc[t] = "futures_wait"
    /\ \E n \in 1..Len(sloc[t].fs) : tasks[sloc[t].fs[n]].st = "pending"

\* C23: whatever the callbacks do, and even if none of them ever finishes, a
\* write call returns; inside write only the registry lock, held by another
\* thread's add_callback / remove_callback, can hold the caller up; a thread
\* held up otherwise is one waiting on handles of which one is unfinished; a
\* work item never holds the lock.
C23_WriteNeverWaits ==
    /\ \A t \in SThreads : InWrite(t) ~> ~InWrite(t)
    /\ [](\A t \in SThreads :
            (spc[t] # "idle" /\ ~CanStep(t)) =>
                \/ spc[t] = "write_snapshot" /\ callback_lock \in SThreads \ {t}
                \/ AwaitsCallback(t))
    /\ [](callback_lock \in SThreads \cup {Free})
    /\ [][\A t \in SThreads :
            (InWrite(t) /\ ~InWrite(t)') =>
                /\ Len(sloc[t].fs) = Len(sloc[t].snap)
                /\ tasks' = tasks]_vars

\* Both writes have returned, neither was waited on, and none of the four
\* work items they submitted, more than the executor has workers, has run.
C23_Witness ==
    /\ spc["s1"] = "idle"
    /\ nWrites = 2
    /\ Len(tasks) = 4
    /\ \A i \in 1..4 : tasks[i].st = "pending"

\* The values of s are in the order in which they were written (the n-th
\* write call writes n).
InWriteOrder(s) == \A m, n \in 1..Len(s) : m < n => s[m] < s[n]

\* The values of the writes that were dispatched to the recording callback c.
DispatchedTo(c) ==
    {tasks[i].val : i \in {j \in 1..Len(tasks) :
                                tasks[j].cb = c /\ tasks[j].f = "append"}}

\* Thread t's wait on the handles of its write returns in this step.
WaitReturns(t) == spc[t] = "futures_wait" /\ spc'[t] = "idle"

\* C24: with one thread writing and waiting on each write's handles before
\* the next, every callback has received the values in write order; between
\* two calls it has received exactly the values of the writes dispatched to
\* it; and when the wait on a write's handles returns, each recording
\* callback that was registered under the write's key before the write was
\* called has received that write's value last.
C24_SequencedWritesInOrder ==
    /\ [](\A c \in Ids : InWriteOrder(seen[c]))
    /\ []((\A t \in SThreads : spc[t] = "idle") =>
            \A c \in Ids : Range(seen[c]) = DispatchedTo(c))
    /\ [][\A t \in SThreads :
            WaitReturns(t) =>
                \A n \in 1..Len(sloc[t].snap) :
                    (sloc[t].snap[n].id \in sloc[t].iss0
                        /\ sloc[t].snap[n].f = "append")
                    => /\ seen[sloc[t].snap[n].id] # <<>>
                       /\ Last(seen[sloc[t].snap[n].id]) = sloc[t].val]_vars
    /\ [][\A t \in SThreads :
            WaitReturns(t) =>
                \A c \in sloc[t].iss0 :
                    callback_keys[c] = sloc[t].key =>
                        \E n \in 1..Len(sloc[t].snap) : sloc[t].snap[n].id = c]_vars

\* test_multiple_callbacks: two recording callbacks under one key, two writes,
\* each waited on; both callbacks hold [1, 2].
C24_Witness ==
    /\ spc["s1"] = "idle"
    /\ callback_keys[1] = callback_keys[2]
    /\ seen[1] = <<1, 2>>
    /\ seen[2] = <<1, 2>>

\* Work item i ends with an exception / gets its logging hook in this step.
Fails(i) == i \in 1..Len(tasks) /\ tasks[i].st = "pending" /\ tasks'[i].st = "exc"
Hooked(i) == i \in 1..Len(tasks) /\ ~tasks[i].hook /\ tasks'[i].hook

\* C25: a work item has at most one ERROR record; it has one, naming the key
\* of the write that submitted it, exactly when it has ended with an exception
\* and the hook is attached, whichever came first: the record is written by
\* the step that completes the pair, and a work item whose callback raised is
\* logged in the end. A work item that is unfinished or returned normally has
\* none, and a record once written stays.
C25_OneErrorRecordPerFailure ==
    /\ [](\A i \in 1..Len(tasks) :
            /\ tasks[i].logged = (IF tasks[i].st = "exc" /\ tasks[i].hook
                                  THEN 1 ELSE 0)
            /\ tasks[i].logged = 1 => tasks[i].logkey = tasks[i].key
            /\ tasks[i].logged = 0 => tasks[i].logkey = NoKey)
    /\ [][\A i \in 1..Len(tasks) :
            /\ (Fails(i) /\ tasks[i].hook) => tasks'[i].logged = 1
            /\ (Hooked(i) /\ tasks[i].st = "exc") => tasks'[i].logged = 1
            /\ tasks[i].logged = 1 => tasks'[i].logged = 1]_vars
    /\ \A i \in 1..MaxTasks :
            (i <= Len(tasks) /\ tasks[i].st = "exc")
                ~> (i <= Len(tasks) /\ tasks[i].logged = 1)

\* test_callback_error_logged with a second raising callback: the first
\* work item failed and has its one record; the second failed before the
\* writing thread attached the hook, which it is about to do.
C25_Witness ==
    /\ Len(tasks) = 2
    /\ tasks[1].st = "exc" /\ tasks[1].hook /\ tasks[1].logged = 1
    /\ tasks[2].st = "exc" /\ ~tasks[2].hook /\ tasks[2].logged = 0
    /\ spc["s1"] = "write_hook"
    /\ sloc["s1"].fut = 2

\* Work item i has been submitted and has not run.
Pending(i) == i <= Len(tasks) /\ tasks[i].st = "pending"

\* Work item i has run, to a normal return or to an exception.
HasRun(i) == i <= Len(tasks) /\ tasks[i].st \in {"ok", "exc"}

\* Thread t is inside remove_callback.
InRemove(t) == spc[t] \in {"remove_1", "remove_2"}

\* C26: no step of remove_callback touches a work item or what the callbacks
\* have received; with the executor's workers alive every submitted work item
\* runs, to a normal return or to an exception, and a recording callback
\* receives the value, also when its callback has been removed in the
\* meantime; a write called after the removal returned submits no work item
\* for the removed callback.
C26_RemovalNeverCancels ==
    /\ [][\A t \in SThreads :
            (InRemove(t) /\ spc'[t] # spc[t]) => tasks' = tasks /\ seen' = seen]_vars
    /\ [](\A i \in 1..Len(tasks) : tasks[i].st \in {"pending", "ok", "exc"})
    /\ \A i \in 1..MaxTasks : Pending(i) ~> HasRun(i)
    /\ [](\A i \in 1..Len(tasks) :
            /\ tasks[i].st = "ok" <=> (HasRun(i) /\ tasks[i].f = "append")
            /\ tasks[i].st = "ok" => tasks[i].val \in Range(seen[tasks[i].cb]))
    /\ [][\A t \in SThreads :
            SubmitStep(t) => tasks'[Len(tasks')].cb \notin sloc[t].rm0]_vars

\* remove_callback has returned for callback 1 while the work item of the
\* first write for it has not run; the second write found nothing to
\* dispatch to and has returned.
C26_Witness ==
    /\ Len(tasks) = 1
    /\ tasks[1].st = "pending"
    /\ tasks[1].cb = 1
    /\ tasks[1].f = "append"
    /\ rmCount[1] = 1
    /\ nWrites = 2
    /\ \A t \in SThreads : spc[t] = "idle"
\* The Writer objects built for key k.
WritersOf(k) == {w \in 1..Len(wobjs) : wobjs[w] = k}

\* C29: under concurrent store.writer(k) calls exactly one Writer is ever
\* created for k, and every caller receives that same instance.
C29_OneWriterUnderConcurrency ==
    \A k \in Keys :
        /\ Cardinality(WritersOf(k)) <= 1
        /\ Cardinality(handed[k]) <= 1
        /\ \A w \in handed[k] : writers[k] = w

\* The ids under key k in self.callbacks, and in the reverse index.
Forward(k) == Range(IdsOf(callbacks[k]))
Reverse(k) == {i \in Ids : callback_keys[i] = k}

\* The ids thread t's write has submitted work items for.
DispatchedBy(t) == {tasks[sloc[t].fs[n]].cb : n \in 1..Len(sloc[t].fs)}

\* C30: with add_callback and remove_callback running in other threads, a
\* write reads self.callbacks[key] in one step, with no registration or
\* removal half done: the snapshot is the key's entry as it is at that step,
\* and the same ids as the reverse index holds for the key; the write keeps
\* that snapshot whatever is registered or removed afterwards and returns
\* handles for exactly its callbacks. Whenever the lock is free both indexes
\* hold the same ids for every key, and no id is ever under two keys or twice
\* under one.
C30_SnapshotAtOneInstant ==
    /\ [][\A t \in SThreads :
            /\ SnapshotStep(t) =>
                /\ callback_lock = Free
                /\ callbacks' = callbacks /\ callback_keys' = callback_keys
                /\ sloc'[t].snap = callbacks[sloc[t].key]
                /\ Range(IdsOf(sloc'[t].snap)) = Reverse(sloc[t].key)
            /\ (spc[t] \in {"write_loop", "write_hook"}
                    /\ spc'[t] \in {"write_loop", "write_hook"})
                => sloc'[t].snap = sloc[t].snap
            /\ ReturnStep(t) =>
                    DispatchedBy(t) = Range(IdsOf(sloc[t].snap))]_vars
    /\ [](callback_lock = Free =>
            \A k \in Keys : Forward(k) = Reverse(k))
    /\ [](\A k \in Keys :
            /\ \A m, n \in 1..Len(callbacks[k]) :
                    callbacks[k][m].id = callbacks[k][n].id => m = n
            /\ \A k2 \in Keys \ {k} : Forward(k) \cap Forward(k2) = {}
            /\ Forward(k) \subseteq 1..nextId)

\* A write under k1 has taken its snapshot, callback 1 alone, and submitted
\* its work item; meanwhile the other thread is half way through registering
\* callback 2 under k1, so the registry is no longer what the write read.
C30_Witness ==
    /\ spc["s1"] = "write_loop"
    /\ sloc["s1"].key = "k1"
    /\ IdsOf(sloc["s1"].snap) = <<1>>
    /\ DispatchedBy("s1") = {1}
    /\ spc["s2"] = "add_2"
    /\ sloc["s2"].key = "k1"
    /\ IdsOf(callbacks["k1"]) = <<1, 2>>
    /\ callback_keys[2] = NoKey

\* Thread t's add_callback returns its id in this step.
AddReturns(t) == spc[t] = "add_2" /\ spc'[t] = "idle"

\* The places of id i in the dict of key k.
EntriesOf(k, i) == {n \in 1..Len(callbacks[k]) : callbacks[k][n].id = i}

\* C35: every add_callback returns an id that no add_callback returned before
\* and that no call under way holds, also when two threads have generated
\* their ids before either got the lock; registering one function twice under
\* a key gives two entries: an id that was returned and not removed has
\* exactly one entry under its key, whatever happens to the other id; a write
\* takes every such id registered at its call into its snapshot and returns
\* one work item for each id of the snapshot, so the function runs once per
\* registration; removing an id takes away that id's entry and no other.
C35_DuplicateRegistrations ==
    /\ [][\A t \in SThreads :
            AddReturns(t) =>
                /\ sloc[t].id \notin issued
                /\ issued' = issued \cup {sloc[t].id}
                /\ callback_keys'[sloc[t].id] = sloc[t].key
                /\ Cardinality(EntriesOf(sloc[t].key, sloc[t].id)) = 1
                /\ rmCount[sloc[t].id] = 0]_vars
    /\ [](\A t, u \in SThreads :
            (/\ t # u
             /\ spc[t] \in {"add_lock", "add_2"}
             /\ spc[u] \in {"add_lock", "add_2"})
                => sloc[t].id # sloc[u].id)
    /\ [](\A i \in issued :
            (rmCount[i] = 0 /\ ~Removing(i))
                => /\ callback_keys[i] # NoKey
                   /\ Cardinality(EntriesOf(callback_keys[i], i)) = 1)
    /\ [][\A t \in SThreads :
            /\ SnapshotStep(t) =>
                \A i \in sloc[t].iss0 \ removed :
                    Removing(i) \/ i \in Range(IdsOf(sloc'[t].snap))
            /\ ReturnStep(t) =>
                \A i \in Range(IdsOf(sloc[t].snap)) :
                    Cardinality({n \in 1..Len(sloc[t].fs) :
                        /\ tasks[sloc[t].fs[n]].cb = i
                        /\ tasks[sloc[t].fs[n]].val = sloc[t].val}) = 1
            /\ (spc[t] = "remove_2" /\ spc'[t] = "idle") =>
                \A k \in Keys : \A n \in 1..Len(callbacks[k]) :
                    callbacks[k][n].id # sloc[t].id
                        => callbacks[k][n] \in Range(callbacks'[k])]_vars

\* The function was registered twice under k1, by two threads that both had
\* their ids before either registered; both registrations ran for the write
\* of 1; the first was removed, and the write of 2 ran the second alone.
C35_Witness ==
    /\ IdsOf(callbacks["k1"]) = <<2>>
    /\ callbacks["k1"][1].f = "append"
    /\ rmCount = [i \in Ids |-> IF i = 1 THEN 1 ELSE 0]
    /\ seen[1] = <<1>>
    /\ seen[2] = <<1, 2>>
    /\ Len(tasks) = 3
    /\ tasks[1].cb = 2 /\ tasks[2].cb = 1
    /\ \A t \in SThreads : spc[t] = "idle"

\* The work items of callback c, as places in the pool's queue.
ItemsOf(c) == {i \in 1..Len(tasks) : tasks[i].cb = c}

\* C36: with one thread writing, the work items of a callback stand in the
\* pool's queue in the order of the write calls, of which each has at most
\* one; a write submits all its work items before it returns, after those of
\* every earlier write; and with a pool that runs the work items in
\* submission order each callback's received values are in write order and
\* are those of its work items that have returned.
C36_PerCallbackWriteOrder ==
    /\ [](\A c \in Ids : \A i, j \in ItemsOf(c) :
            i < j => tasks[i].val < tasks[j].val)
    /\ [](\A i, j \in 1..Len(tasks) : i < j => tasks[i].val <= tasks[j].val)
    /\ [][\A t \in SThreads :
            SubmitStep(t) =>
                /\ tasks' = Append(tasks, tasks'[Len(tasks')])
                /\ tasks'[Len(tasks')].val = sloc[t].val
                /\ sloc[t].val = nWrites]_vars
    /\ [](\A c \in Ids : InWriteOrder(seen[c]))
    /\ [](\A c \in Ids : \A i \in ItemsOf(c) :
            tasks[i].st = "ok" <=> tasks[i].val \in Range(seen[c]))

\* Both writes under k1 have returned without anybody waiting on a handle:
\* the work items of the one callback, for 1 and for 2, were queued together,
\* and the callback has received 1, then 2.
C36_Witness ==
    /\ nWrites = 2
    /\ spc["s1"] = "idle"
    /\ Len(tasks) = 2
    /\ tasks[1].cb = 1 /\ tasks[2].cb = 1
    /\ tasks[1].key = "k1"
    /\ seen[1] = <<1, 2>>

\* Thread t's remove_callback raises KeyError in this step.
RemoveRaises(t) == spc[t] = "remove_1" /\ spc'[t] = "idle"

\* Thread t is inside a remove_callback call that is going to raise KeyError.
Failing(t) == spc[t] = "remove_1" /\ callback_keys[sloc[t].id] = NoKey

\* C37: a remove_callback that raises KeyError raises at the lookup in the
\* reverse index, before anything is deleted: from the moment it has the lock
\* to the raise no step of any thread changes self.callbacks or
\* self._callback_keys, the call's own steps change neither these nor
\* self.writers, the Writers, the work items and the received values, and
\* the raise leaves the lock free. The second deletion never fails, so no
\* call raises after having deleted from the reverse index.
C37_FailedRemoveChangesNothing ==
    /\ [][\A t \in SThreads :
            /\ (spc[t] = "idle" /\ spc'[t] = "remove_1") =>
                /\ callback_lock = Free /\ callback_lock' = t
                /\ UNCHANGED <<callbacks, callback_keys, writers, wobjs,
                               tasks, seen, rmCount>>
            /\ Failing(t) =>
                /\ callback_lock = t
                /\ callbacks' = callbacks
                /\ callback_keys' = callback_keys
                /\ spc'[t] \in {"remove_1", "idle"}
            /\ RemoveRaises(t) =>
                /\ Failing(t)
                /\ callback_lock' = Free
                /\ UNCHANGED <<callbacks, callback_keys, writers, wobjs,
                               tasks, seen, rmCount, nextId, handed>>]_vars
    /\ [](\A t \in SThreads :
            spc[t] = "remove_2" =>
                sloc[t].id \in Range(IdsOf(callbacks[sloc[t].key])))
    /\ [](\A t \in SThreads :
            (spc[t] = "idle" /\ callback_lock # Free) =>
                \E u \in SThreads \ {t} : callback_lock = u /\ spc[u] # "idle")

\* Callback 1 is registered under k1 and has a work item waiting; thread s2
\* is inside remove_callback for an id that was never returned, holds the
\* lock, and its only next step is the KeyError.
C37_Witness ==
    /\ Failing("s2")
    /\ callback_lock = "s2"
    /\ sloc["s2"].id = 2
    /\ nextId = 1
    /\ IdsOf(callbacks["k1"]) = <<1>>
    /\ callback_keys[1] = "k1"
    /\ writers["k1"] # NoWriter
    /\ Len(tasks) = 1 /\ tasks[1].st = "pending"
    /\ ENABLED remove_raise("s2")
    /\ ~ENABLED remove_1("s2")

\* Thread t registers a callback / deletes one from self.callbacks in this
\* step.
AddStep(t) == spc[t] = "idle" /\ spc'[t] = "add_2"
DelStep(t) == spc[t] = "remove_2" /\ spc'[t] = "idle"

\* C38: a Writer is bound to the key it was made for, and a write through it
\* reads the callbacks of that key only: every id of its snapshot, and so of
\* its work items, is registered under the write's key; over all writes a
\* callback is dispatched under one key only. A change of the callbacks of a
\* key is a step of add_callback called with that key or of remove_callback
\* for an id registered under it, and changes the callbacks of no other key;
\* the reverse index changes for the id of the call only.
C38_KeysAreIsolated ==
    /\ [](\A k \in Keys : writers[k] # NoWriter => wobjs[writers[k]] = k)
    /\ [][\A t \in SThreads :
            /\ SnapshotStep(t) =>
                \A n \in 1..Len(sloc'[t].snap) :
                    callback_keys[sloc'[t].snap[n].id] = sloc[t].key
            /\ SubmitStep(t) =>
                /\ tasks'[Len(tasks')].key = sloc[t].key
                /\ \E n \in 1..Len(sloc[t].snap) :
                        tasks'[Len(tasks')].cb = sloc[t].snap[n].id]_vars
    /\ [](\A i, j \in 1..Len(tasks) :
            tasks[i].cb = tasks[j].cb => tasks[i].key = tasks[j].key)
    /\ [](\A i \in 1..Len(tasks) :
            callback_keys[tasks[i].cb] \in {NoKey, tasks[i].key})
    /\ [][\A k \in Keys :
            callbacks'[k] # callbacks[k] =>
                /\ \A k2 \in Keys \ {k} : callbacks'[k2] = callbacks[k2]
                /\ \E t \in SThreads :
                    \/ AddStep(t) /\ sloc'[t].key = k
                    \/ DelStep(t) /\ sloc[t].key = k]_vars
    /\ [][\A i \in Ids :
            callback_keys'[i] # callback_keys[i] =>
                /\ \A j \in Ids \ {i} : callback_keys'[j] = callback_keys[j]
                /\ \E t \in SThreads :
                    /\ sloc[t].id = i
                    /\ spc[t] \in {"add_2", "remove_1"}
                    /\ spc'[t] # spc[t]]_vars

\* Callback 1 is registered under k1 and callback 2 under k2; a write of 1
\* through the Writer of k1, called after both registrations, has submitted
\* its only work item, for callback 1.
C38_Witness ==
    /\ IdsOf(callbacks["k1"]) = <<1>>
    /\ IdsOf(callbacks["k2"]) = <<2>>
    /\ spc["s1"] = "write_loop"
    /\ sloc["s1"].key = "k1"
    /\ sloc["s1"].iss0 = {1, 2}
    /\ Len(sloc["s1"].fs) = 1
    /\ Len(tasks) = 1
    /\ tasks[1].cb = 1
    /\ ENABLED write_return("s1")

\* Both maps hold the same registrations.
Consistent ==
    \A i \in Ids : \A k \in Keys :
        callback_keys[i] = k <=> i \in Range(IdsOf(callbacks[k]))

\* C39: whenever no thread holds the registry lock, an id is in the reverse
\* index with key k exactly when it is in callbacks[k]; both maps change only
\* in steps of the thread that holds the lock or takes it in that step, the
\* lock is only released with both maps in agreement, and while a thread is
\* between its two updates the maps differ in that thread's id alone: in
\* callbacks[key] and not yet, or no longer, in the reverse index.
C39_RegistryConsistent ==
    /\ [](callback_lock = Free => Consistent)
    /\ [][(callbacks' # callbacks \/ callback_keys' # callback_keys) =>
            \E t \in SThreads :
                /\ callback_lock = t \/ (callback_lock = Free /\ callback_lock' = t)
                /\ spc'[t] # spc[t]
                /\ \A u \in SThreads \ {t} : spc'[u] = spc[u]]_vars
    /\ [][(callback_lock # Free /\ callback_lock' = Free) => Consistent']_vars
    /\ [](\A t \in SThreads :
            spc[t] \in {"add_2", "remove_2"} =>
                /\ callback_lock = t
                /\ sloc[t].id \in Range(IdsOf(callbacks[sloc[t].key]))
                /\ callback_keys[sloc[t].id] = NoKey
                /\ \A i \in Ids \ {sloc[t].id} : \A k \in Keys :
                        callback_keys[i] = k <=> i \in Range(IdsOf(callbacks[k])))
    /\ [](\A t \in SThreads : spc[t] = "remove_1" => Consistent)

\* Two callbacks were registered, under k1 and under k2, and the first was
\* removed again; the lock is free, and both maps hold callback 2 under k2
\* and nothing else.
C39_Witness ==
    /\ callback_lock = Free
    /\ nextId = 2
    /\ rmCount[1] = 1
    /\ callbacks["k1"] = <<>>
    /\ IdsOf(callbacks["k2"]) = <<2>>
    /\ callback_keys = [i \in Ids |-> IF i = 2 THEN "k2" ELSE NoKey]

====
